---- MODULE Spec2Model ----
(***************************************************************************)
(* Image loader of the custom-building panel                               *)
(* (src/src/components/game/panels/CustomBuildingPanel.tsx, 320-735):      *)
(* the bitmap cache, the content-bounds cache, the WebP capability probe,  *)
(* the load-completion listeners, the asynchronous loads, the chroma       *)
(* filter and the content-bounds analyzer.                                 *)
(*                                                                         *)
(* JavaScript runs one task at a time, so every action below is one task   *)
(* of the event loop together with the microtasks (await / then            *)
(* continuations) it triggers.  A locator string is a sequence of tokens,  *)
(* "a.png" being <<"a", ".png">>, so that endsWith, the extension swap and *)
(* the "_filtered" suffix are computed as the code computes them.          *)
(***************************************************************************)
EXTENDS Integers, Sequences, FiniteSets, TLC

\* Number of loadImage / loadSpriteImage calls issued in a behaviour.
MaxCalls == 3

\* Number of calls issued in a behaviour in which listeners are registered
\* and content bounds are asked for as well.
MaxCallsAll == 2

\* Number of calls issued in a behaviour in which listeners are registered.
MaxCallsNotify == 2

\* Number of loadImage calls issued in a behaviour in which every fetch
\* succeeds.
MaxCallsPair == 2

\* Number of calls that may be in flight at the same time.
MaxInFlight == 2

\* Number of calls that may be in flight at the same time in a behaviour in
\* which listeners are registered and content bounds are asked for as well.
MaxInFlightAll == 1

\* Number of pixels of a bitmap given to filterBackgroundColor or
\* analyzeContentBounds.
MaxPixels == 4

\* The callbacks a client may register.
Callbacks == {"cb1", "cb2"}

\* The locators clients ask for.
PngA == <<"a", ".png">>
WebpA == <<"a", ".webp">>
FiltA == <<"a", ".png", "_filtered">>
Locators == {PngA, WebpA, FiltA}

\* The locators clients ask getContentBounds for.
BoundsLocators == {PngA}

\* The callbacks registered in a behaviour in which content bounds are asked
\* for as well.
FewCallbacks == {"cb1"}

\* The locators clients ask loadSpriteImage for.
SpriteLocators == {PngA}

CallIds == 1..MaxCalls

\* An HTMLImageElement: the call that created it, the locator it was decoded
\* from, and whether it is an output of filterBackgroundColor.
NoImage == [by |-> 0, url |-> <<>>, filtered |-> FALSE]

\* Stands for the cache entry that the clear just before a call removed.
ClearedImage == [by |-> 0, url |-> <<"cleared">>, filtered |-> FALSE]

VARIABLES
    imageCache,           \* Map<string, HTMLImageElement>
    contentBoundsCache,   \* Map<string, ContentBounds>
    webpSupported,        \* "null" | "true" | "false"
    imageLoadCallbacks,   \* Set<ImageLoadCallback>
    webpDecodes,          \* whether this browser decodes the embedded WebP
    calls,                \* the calls in flight, by call id
    firstResult,          \* per locator: first successful loadImage result since the last clear
    justCleared,          \* the keys the last clearImageCache removed: images until the
                          \* next call step, bounds until the next getContentBounds
    ret,                  \* the call that took the last step, after that step
    notified,             \* how often each callback ran during the last step
    boundsOut,            \* what getContentBounds did, if it was the last step
    pix,                  \* a bitmap, and what the chroma filter and the analyzer
                          \* made of it
    gen,                  \* useCustomBuildingGenerator: its React state and its
                          \* generate calls
    provider,             \* CustomBuildingsProvider: its React state, its ref and
                          \* the localStorage item
    panel,                \* CustomBuildingPanel: its React state and what it told
                          \* its parent during the last step
    attrs                 \* the analyze step of the route: the attributes the
                          \* model answered and the ones returned

vars == <<imageCache, contentBoundsCache, webpSupported, imageLoadCallbacks,
          webpDecodes, calls, firstResult, justCleared, ret, notified,
          boundsOut, pix, gen, provider, panel, attrs>>

----------------------------------------------------------------------------
\* Map operations

EmptyMap == <<>>

MapHas(m, k) == k \in DOMAIN m

MapSet(m, k, v) == [x \in (DOMAIN m) \cup {k} |-> IF x = k THEN v ELSE m[x]]

MapGet(m, k) == IF k \in DOMAIN m THEN m[k] ELSE NoImage

----------------------------------------------------------------------------
\* String operations on locators

endsWithPng(src) == Len(src) > 0 /\ src[Len(src)] = ".png"

\* getWebPPath that looks for ".png" anywhere in src
getWebPPath_anywhere(src) ==
    IF \E i \in 1..Len(src) : src[i] = ".png"
    THEN [src EXCEPT ![Len(src)] = ".webp"] ELSE <<>>

\* src.replace(/\.png$/, '.webp'), or <<>> for null
getWebPPath(src) ==
    IF endsWithPng(src) THEN [src EXCEPT ![Len(src)] = ".webp"] ELSE <<>>

\* `${src}_filtered`
FilteredKey(src) == src \o <<"_filtered">>

cacheKeyOf(src, applyFilter) == IF applyFilter THEN FilteredKey(src) ELSE src

\* isImageCached(src, filtered)
isImageCached(src, filtered) == MapHas(imageCache, cacheKeyOf(src, filtered))

\* getCachedImage(src, filtered), NoImage for undefined
getCachedImage(src, filtered) == MapGet(imageCache, cacheKeyOf(src, filtered))

----------------------------------------------------------------------------
\* Bitmaps, the canvas, the chroma filter and the content-bounds analyzer

BACKGROUND_COLOR == [r |-> 255, g |-> 0, b |-> 0]

COLOR_THRESHOLD == 155

alphaThreshold == 10

\* What a 2D canvas does with an image in this browser: it keeps the pixels
\* as they are, or keeps them premultiplied by alpha (reading them back is
\* then lossy for pixels that are not opaque), or gives no context, or refuses
\* to hand out the pixels of an image of another origin.
CanvasKinds == {"exact", "premultiplied", "noContext", "tainted"}

Pixel(r, g, b, a) == [r |-> r, g |-> g, b |-> b, a |-> a]

\* The pixels bitmaps are made of: the background colour, a colour at
\* distance 155 from it and one at distance 156, each opaque and translucent,
\* and a transparent pixel.
PixelSamples ==
    {Pixel(255, 0, 0, 255), Pixel(255, 93, 124, 255), Pixel(99, 0, 0, 255),
     Pixel(100, 0, 0, 11), Pixel(99, 0, 0, 10), Pixel(0, 0, 0, 0)}

\* The thresholds filterBackgroundColor is called with.
Thresholds == {0, COLOR_THRESHOLD, 156}

\* An image of width * height pixels, rows first.
Image(w, h, data, canvas) ==
    [width |-> w, height |-> h, data |-> data, canvas |-> canvas]

NoBitmap == Image(0, 0, <<>>, "exact")

\* c * a / 255 and p * 255 / a, rounded to the nearest byte
Premultiply(c, a) == (2 * c * a + 255) \div 510

Unpremultiply(p, a) ==
    IF a = 0 THEN 0
    ELSE LET v == (2 * p * 255 + a) \div (2 * a)
         IN  IF v > 255 THEN 255 ELSE v

\* A pixel as it comes back from a canvas.
CanvasPixel(p, canvas) ==
    IF canvas = "premultiplied"
    THEN Pixel(Unpremultiply(Premultiply(p.r, p.a), p.a),
               Unpremultiply(Premultiply(p.g, p.a), p.a),
               Unpremultiply(Premultiply(p.b, p.a), p.a),
               p.a)
    ELSE p

\* ctx.drawImage(img, 0, 0) followed by ctx.getImageData(0, 0, w, h).data
getImageData(img) ==
    [i \in 1..Len(img.data) |-> CanvasPixel(img.data[i], img.canvas)]

\* ctx.putImageData(imageData, 0, 0), canvas.toDataURL() and the decoding of
\* that URL by a new Image
toDataURL(data, canvas) ==
    [i \in 1..Len(data) |-> CanvasPixel(data[i], canvas)]

\* The square of the Euclidean distance in RGB space to BACKGROUND_COLOR
distance2(p) ==
    (p.r - BACKGROUND_COLOR.r) * (p.r - BACKGROUND_COLOR.r)
    + (p.g - BACKGROUND_COLOR.g) * (p.g - BACKGROUND_COLOR.g)
    + (p.b - BACKGROUND_COLOR.b) * (p.b - BACKGROUND_COLOR.b)

\* "distance <= threshold + 1"
isBackground_wide(p, threshold) ==
    threshold >= 0 /\ distance2(p) <= (threshold + 1) * (threshold + 1)

\* "distance <= threshold" for a non-negative distance: the square root of an
\* integer is at most the integer threshold iff the integer is at most its
\* square.
isBackground(p, threshold) ==
    threshold >= 0 /\ distance2(p) <= threshold * threshold

\* The loop of filterBackgroundColor over one pixel
filterPixel(p, threshold) ==
    IF isBackground(p, threshold) THEN [p EXCEPT !.a = 0] ELSE p

\* filterBackgroundColor(img, threshold): the promise's outcome
filterBackgroundColor(img, threshold) ==
    IF img.canvas \in {"noContext", "tainted"}
    THEN [ok |-> FALSE, img |-> NoBitmap]
    ELSE LET data == getImageData(img)
             out  == [i \in 1..Len(data) |-> filterPixel(data[i], threshold)]
         IN  [ok |-> TRUE,
              img |-> Image(img.width, img.height,
                            toDataURL(out, img.canvas), img.canvas)]

\* A number n / d
Ratio(n, d) == [num |-> n, den |-> d]

SetMin(S) == CHOOSE x \in S : \A y \in S : x <= y

SetMax(S) == CHOOSE x \in S : \A y \in S : x >= y

\* A whole-image record whose maxX and maxY are the last column and row.
FallbackBounds_inclusive(width, height) ==
    [minX |-> 0, minY |-> 0, maxX |-> width - 1, maxY |-> height - 1,
     contentWidth |-> width, contentHeight |-> height,
     centerOffsetX |-> Ratio(0, 1), centerOffsetY |-> Ratio(0, 1),
     contentRatioX |-> Ratio(1, 1), contentRatioY |-> Ratio(1, 1)]


\* The record analyzeContentBounds returns when it assumes that the content
\* fills the image.
FallbackBounds(width, height) ==
    [minX |-> 0, minY |-> 0, maxX |-> width, maxY |-> height,
     contentWidth |-> width, contentHeight |-> height,
     centerOffsetX |-> Ratio(0, 1), centerOffsetY |-> Ratio(0, 1),
     contentRatioX |-> Ratio(1, 1), contentRatioY |-> Ratio(1, 1)]

\* The positions (x, y) of img whose alpha, as read from the canvas, is above
\* alphaThreshold.
ContentPixels(img) ==
    LET data == getImageData(img)
    IN  {xy \in (0..(img.width - 1)) \X (0..(img.height - 1)) :
            data[xy[2] * img.width + xy[1] + 1].a > alphaThreshold}

\* The distance of the middles in pixels, not over the size
centerOffset_unscaled(min, content, size) == Ratio(2 * min + content - size, 2)


\* The distance of the content's middle from the left edge, over the size
centerOffset_fromEdge(min, content, size) == Ratio(2 * min + content, 2 * size)

\* ((min + content / 2) - size / 2) / size: the distance of the middle of the
\* content, which starts at min, from the middle of the image, over the size
centerOffset(min, content, size) == Ratio(2 * min + content - size, 2 * size)

\* analyzeContentBounds(img)
analyzeContentBounds(img) ==
    LET width  == img.width
        height == img.height
    IN  IF img.canvas \in {"noContext", "tainted"}
        THEN FallbackBounds(width, height)
        ELSE LET content == ContentPixels(img)
                 minX == SetMin({xy[1] : xy \in content} \cup {width})
                 maxX == SetMax({xy[1] : xy \in content} \cup {0})
                 minY == SetMin({xy[2] : xy \in content} \cup {height})
                 maxY == SetMax({xy[2] : xy \in content} \cup {0})
                 contentWidth  == maxX - minX + 1
                 contentHeight == maxY - minY + 1
             IN  IF minX > maxX \/ minY > maxY
                 THEN FallbackBounds(width, height)
                 ELSE [minX |-> minX, minY |-> minY,
                       maxX |-> maxX, maxY |-> maxY,
                       contentWidth |-> contentWidth,
                       contentHeight |-> contentHeight,
                       centerOffsetX |-> centerOffset(minX, contentWidth, width),
                       centerOffsetY |->
                           centerOffset(minY, contentHeight, height),
                       contentRatioX |-> Ratio(contentWidth, width),
                       contentRatioY |-> Ratio(contentHeight, height)]

\* The picture stored at a locator: the background colour next to a pixel of
\* content, whose colour depends on the encoding.
SourceImage(url) ==
    Image(2, 1,
          <<Pixel(255, 0, 0, 255),
            Pixel(IF endsWithPng(url) THEN 99 ELSE 98, 0, 0, 255)>>,
          "exact")

\* The pixels of an HTMLImageElement of the loader.
Bitmap(img) ==
    IF img.filtered
    THEN filterBackgroundColor(SourceImage(img.url), COLOR_THRESHOLD).img
    ELSE SourceImage(img.url)

\* No ContentBounds record
NoBounds == FallbackBounds(0, 0)

----------------------------------------------------------------------------
\* Call records

NoCalls == [cb \in Callbacks |-> 0]

\* op, src, filt: the call.  pc: where it is suspended.  ev: its last step.
\* li: the state of its loadImage promise.  The other fields record what its
\* loadImage has done so far: the cache entry and first result it found when
\* it started, the locators it fetched, the probes it started, the cache keys
\* it wrote, whether the cache held its image under src when it notified the
\* listeners, and the image it resolved with.  out: the image the call
\* returned.
IdleCall ==
    [op |-> "none", src |-> <<>>, filt |-> FALSE, pc |-> "idle", ev |-> "none",
     li |-> "none", atStart |-> NoImage, expect |-> NoImage,
     fetches |-> <<>>, probes |-> 0, writes |-> {}, seen |-> "none",
     img |-> NoImage, out |-> NoImage]

RetiredCall == [IdleCall EXCEPT !.pc = "retired"]

NewCall(op, src, filt) ==
    [IdleCall EXCEPT !.op = op, !.src = src, !.filt = filt, !.pc = "start"]

\* The image a successful fetch of url by call c creates.
Decoded(c, url) == [by |-> c, url |-> url, filtered |-> FALSE]

\* The image filterBackgroundColor creates from img in call c.
Filtered(c, img) == [by |-> c, url |-> img.url, filtered |-> TRUE]

----------------------------------------------------------------------------
\* The steps of one call, as functions of the call record and the cache

Final == {"done", "failed"}

Bundle(m, r, n) == [cache |-> m, call |-> r, notified |-> n]

\* notifyImageLoaded that also runs the callbacks that are not registered
notifyImageLoaded_all(cbs) == [cb \in Callbacks |-> 1]

\* notifyImageLoaded: how often each callback runs in one notification
notifyImageLoaded(cbs) == [cb \in Callbacks |-> IF cb \in cbs THEN 1 ELSE 0]

\* The promise of loadImage resolves; loadSpriteImage's then-callback runs.
loadImage_resolved(r, img, ev) ==
    LET r1 == [r EXCEPT !.li = "ok", !.img = img, !.ev = ev]
    IN  IF r.op = "loadSpriteImage" /\ r.filt
        THEN [r1 EXCEPT !.pc = "filter"]
        ELSE [r1 EXCEPT !.pc = "done", !.out = img]

\* loadImage that swallows the error and resolves with nothing
loadImage_rejected_swallowed(r) ==
    [r EXCEPT !.li = "ok", !.pc = "done", !.ev = "rejected"]

\* The promise of loadImage rejects, and with it loadSpriteImage's.
loadImage_rejected(r) == [r EXCEPT !.li = "err", !.pc = "failed", !.ev = "rejected"]

\* loadImageDirect(url): a new Image whose src is set
loadImageDirect(r, url, pc) ==
    [r EXCEPT !.fetches = Append(@, url), !.pc = pc]

\* loadImage that fetches the WebP variant whatever the probe has answered
loadImage_probed_alternate(r, supportsWebP) ==
    loadImageDirect(r, getWebPPath(r.src), "fetchWebp")

\* loadImage after "await checkWebPSupport()"
loadImage_probed(r, supportsWebP) ==
    IF supportsWebP
    THEN loadImageDirect(r, getWebPPath(r.src), "fetchWebp")
    ELSE loadImageDirect(r, r.src, "fetchOrig")

\* loadImage without the try/catch: the WebP failure reaches the caller
loadImage_webpFailed_surfaced(r) ==
    [r EXCEPT !.li = "err", !.pc = "failed", !.ev = "webpFailed"]

\* loadImage's catch of a failed loadImageDirect(webpPath): fall back to src
loadImage_webpFailed(r) ==
    loadImageDirect([r EXCEPT !.ev = "webpFailed"], r.src, "fetchOrig")

\* checkWebPSupport(): the stored answer, or a new probe
checkWebPSupport(r, ws) ==
    IF ws # "null"
    THEN loadImage_probed(r, ws = "true")
    ELSE [r EXCEPT !.probes = @ + 1, !.pc = "probing"]

\* loadImage without the cache lookup
loadImage_noLookup(r, m, ws, first) ==
    LET r1 == [r EXCEPT !.li = "pending", !.ev = "begin",
                        !.atStart = MapGet(m, r.src),
                        !.expect = first[r.src]]
    IN  IF getWebPPath(r.src) # <<>>
        THEN checkWebPSupport(r1, ws)
        ELSE loadImageDirect(r1, r.src, "fetchOrig")

\* loadImage(src) up to its first suspension
loadImage(r, m, ws, first) ==
    LET r1 == [r EXCEPT !.li = "pending", !.ev = "begin",
                        !.atStart = MapGet(m, r.src),
                        !.expect = first[r.src]]
    IN  IF MapHas(m, r.src)
        THEN loadImage_resolved(r1, m[r.src], "hit")
        ELSE IF getWebPPath(r.src) # <<>>
             THEN checkWebPSupport(r1, ws)
             ELSE loadImageDirect(r1, r.src, "fetchOrig")

\* loadSpriteImage without the lookup of the cache key
loadSpriteImage_noLookup(r, m, ws, first) == loadImage(r, m, ws, first)

\* loadSpriteImage(src, applyFilter) up to its first suspension
loadSpriteImage(r, m, ws, first) ==
    LET cacheKey == cacheKeyOf(r.src, r.filt)
    IN  IF MapHas(m, cacheKey)
        THEN [r EXCEPT !.pc = "done", !.ev = "spriteHit", !.out = m[cacheKey]]
        ELSE loadImage(r, m, ws, first)

\* loadImageDirect's onload that caches the image under the filtered key too
loadImageDirect_onload_twoKeys(m, r, c, url, cbs) ==
    LET img == Decoded(c, url)
        m1  == MapSet(MapSet(m, url, img), FilteredKey(url), img)
    IN  Bundle(m1,
               [r EXCEPT !.writes = @ \cup {url, FilteredKey(url)},
                         !.seen = IF MapGet(m1, r.src) = img
                                  THEN "hit" ELSE "miss",
                         !.img = img],
               notifyImageLoaded(cbs))

\* img.onload of loadImageDirect(url): cache, notify, resolve
loadImageDirect_onload(m, r, c, url, cbs) ==
    LET img == Decoded(c, url)
        m1  == MapSet(m, url, img)
    IN  Bundle(m1,
               [r EXCEPT !.writes = @ \cup {url},
                         !.seen = IF MapGet(m1, r.src) = img
                                  THEN "hit" ELSE "miss",
                         !.img = img],
               notifyImageLoaded(cbs))

\* loadImage that does not cache the WebP image under the PNG path
loadImage_webpLoaded_noAlias(b) ==
    Bundle(b.cache, loadImage_resolved(b.call, b.call.img, "loaded"),
           b.notified)

\* loadImage after "await loadImageDirect(webpPath)" succeeded
loadImage_webpLoaded(b) ==
    LET r == b.call
    IN  Bundle(MapSet(b.cache, r.src, r.img),
               loadImage_resolved([r EXCEPT !.writes = @ \cup {r.src}],
                                  r.img, "loaded"),
               b.notified)

\* loadImage whose fetch of the original resolves but leaves src uncached
loadImage_origLoaded_uncached(b) ==
    Bundle([k \in (DOMAIN b.cache) \ {b.call.src} |-> b.cache[k]],
           loadImage_resolved(b.call, b.call.img, "loaded"),
           b.notified)

\* loadImage's "return loadImageDirect(src)" succeeded
loadImage_origLoaded(b) ==
    Bundle(b.cache, loadImage_resolved(b.call, b.call.img, "loaded"),
           b.notified)

\* loadSpriteImage that puts the filtered image in the place of the raw one
loadSpriteImage_filtered_inPlace(m, r, c) ==
    LET filteredImg == Filtered(c, r.img)
        cacheKey == cacheKeyOf(r.src, r.filt)
    IN  Bundle(MapSet(MapSet(m, cacheKey, filteredImg), r.src, filteredImg),
               [r EXCEPT !.pc = "done", !.ev = "filtered",
                         !.out = filteredImg],
               NoCalls)

\* loadSpriteImage that moves the entry from the raw key to the filtered key
loadSpriteImage_filtered_moved(m, r, c) ==
    LET filteredImg == Filtered(c, r.img)
        cacheKey == cacheKeyOf(r.src, r.filt)
    IN  Bundle([k \in ((DOMAIN m) \ {r.src}) \cup {cacheKey} |->
                   IF k = cacheKey THEN filteredImg ELSE m[k]],
               [r EXCEPT !.pc = "done", !.ev = "filtered",
                         !.out = filteredImg],
               NoCalls)

\* filteredImg.onload inside loadSpriteImage's then-callback
loadSpriteImage_filtered(m, r, c) ==
    LET filteredImg == Filtered(c, r.img)
        cacheKey == cacheKeyOf(r.src, r.filt)
    IN  Bundle(MapSet(m, cacheKey, filteredImg),
               [r EXCEPT !.pc = "done", !.ev = "filtered",
                         !.out = filteredImg],
               NoCalls)

----------------------------------------------------------------------------
\* useCustomBuildingGenerator: prompts, requests and the hook's state

\* At most MaxGenCalls calls of generate with a prompt that is not blank.
MaxGenCalls == 2

GenCallIds == 1..MaxGenCalls

\* A prompt is a sequence of characters; " " stands for white space.
Prompts == {<<>>, <<" ">>, <<" ", "hut", " ">>}

RECURSIVE trimStart(_)
trimStart(p) ==
    IF p # <<>> /\ Head(p) = " " THEN trimStart(Tail(p)) ELSE p

RECURSIVE trimEnd(_)
trimEnd(p) ==
    IF p # <<>> /\ p[Len(p)] = " " THEN trimEnd(SubSeq(p, 1, Len(p) - 1))
    ELSE p

\* prompt.trim()
trim(p) == trimEnd(trimStart(p))

\* null, for result and for error
NoResult == [imageUrl |-> "null", prompt |-> <<>>, attributes |-> "null"]

NoError == "null"

\* What the server answers: aspectData.aspectRatio ("" for none),
\* genData.imageUrl and analyzeData.attributes.
AspectRatios == {"", "1:1"}

ImageUrls == {"u1", "u2"}

Attributes == {"attrs"}

\* The messages of the errors thrown in the try block: a rejected fetch or
\* json(), the server's errorData.error, and the default text of the stage.
NetworkError == "Failed to fetch"

ServerError == "server error"

StageErrors ==
    [aspect |-> "Aspect ratio selection failed",
     generate |-> "Image generation failed",
     analyze |-> "Analysis failed",
     preload |-> "Failed to load generated image"]

\* pc: the await at which the call is suspended, or how it ended.  prompt: its
\* argument.  sent: the requests it has started, in order.  aspectRatio,
\* imageUrl, attributes: its locals.
IdleGenCall ==
    [pc |-> "idle", prompt |-> <<>>, sent |-> <<>>, aspectRatio |-> "",
     imageUrl |-> "null", attributes |-> "null"]

InitialGen ==
    [step |-> "idle", result |-> NoResult, error |-> NoError,
     calls |-> [c \in GenCallIds |-> IdleGenCall]]

----------------------------------------------------------------------------
\* CustomBuildingsProvider: buildings and the localStorage item

\* The stored array has at most MaxStored entries.
MaxStored == 2

BuildingIds == {"b1", "b2"}

BuildingNames == {"n1", "n2"}

\* A value found in the stored array.  typed: it is an object whose id, name
\* and spriteUrl are strings, whose size and cost are numbers and whose stats
\* is an object.
Entry(id, name, size, typed) ==
    [id |-> id, name |-> name, size |-> size, typed |-> typed]

\* The buildings the panel creates.
CustomBuildings ==
    {Entry(id, name, 2, TRUE) : id \in BuildingIds, name \in BuildingNames}

\* What the stored array can hold: buildings, a building whose size is out of
\* range and a value that is not a building.
StoredEntries ==
    {Entry("b1", "n1", 2, TRUE), Entry("b2", "n1", 2, TRUE),
     Entry("b1", "n1", 5, TRUE), Entry("b2", "n1", 2, FALSE)}

\* isValidCustomBuilding(b)
isValidCustomBuilding(b) == b.typed /\ b.size >= 1 /\ b.size <= 4

\* The string under STORAGE_KEY: none ("null"), the empty string ("empty"),
\* a string that is not JSON ("garbage"), the JSON of a value that is not an
\* array ("object"), or the JSON of an array ("array").
Item(kind, items) == [kind |-> kind, items |-> items]

NoItem == Item("null", <<>>)

\* JSON.stringify(buildings)
stringify(buildings) == Item("array", buildings)

\* parsed.filter(isValidCustomBuilding)
RECURSIVE filterValid(_)
filterValid(q) ==
    IF q = <<>> THEN <<>>
    ELSE IF isValidCustomBuilding(Head(q))
         THEN <<Head(q)>> \o filterValid(Tail(q))
         ELSE filterValid(Tail(q))

\* loadCustomBuildings() with item under STORAGE_KEY
loadCustomBuildings(item) ==
    IF item.kind = "array" THEN filterValid(item.items) ELSE <<>>

\* saveCustomBuildings(buildings): the item it leaves; setItem throws when
\* the quota is exceeded
saveCustomBuildings(item, buildings, quota) ==
    IF quota THEN stringify(buildings) ELSE item

\* prev.findIndex((b) => b.id === id), counted from 1, 0 for none
findIndex(prev, id) ==
    IF \E i \in 1..Len(prev) : prev[i].id = id
    THEN CHOOSE i \in 1..Len(prev) :
            /\ prev[i].id = id
            /\ \A j \in 1..(i - 1) : prev[j].id # id
    ELSE 0

\* An updater that always appends
addCustomBuilding_appending(prev, building) == Append(prev, building)

\* The updater of addCustomBuilding
addCustomBuilding_updater(prev, building) ==
    LET existingIndex == findIndex(prev, building.id)
    IN  IF existingIndex > 0
        THEN [prev EXCEPT ![existingIndex] = building]
        ELSE Append(prev, building)

\* prev.filter((b) => b.id !== id)
RECURSIVE removeCustomBuilding_updater(_, _)
removeCustomBuilding_updater(prev, id) ==
    IF prev = <<>> THEN <<>>
    ELSE IF Head(prev).id # id
         THEN <<Head(prev)>> \o removeCustomBuilding_updater(Tail(prev), id)
         ELSE removeCustomBuilding_updater(Tail(prev), id)

\* A removal that keeps the selection
removeCustomBuilding_selection_kept(prev, id) == prev

\* The selection updater of removeCustomBuilding
removeCustomBuilding_selection(prev, id) == IF prev = id THEN "null" ELSE prev

\* mounted: the provider is in the tree.  customBuildings, selected: its
\* state.  hasLoaded: hasLoadedRef.current.  stale: a render with a new
\* customBuildings is pending.  item: the localStorage item.  wrote: the
\* lists passed to saveCustomBuildings during the last step.  read: whether
\* the last step read the item.  preloads: the ids of the buildings whose
\* sprites the last step asked loadImage for.  op, arg: the last step and
\* the id it was called with.
InitialProvider(item) ==
    [mounted |-> FALSE, customBuildings |-> <<>>, selected |-> "null",
     hasLoaded |-> FALSE, stale |-> FALSE, item |-> item,
     wrote |-> <<>>, read |-> FALSE, preloads |-> {},
     op |-> "none", arg |-> "null"]

\* prompt, editedName: the panel's state.  seen: the result its effect ran
\* for last.  forwarded: the calls of onOpenChange during the last step.
InitialPanel ==
    [prompt |-> <<>>, editedName |-> "", seen |-> NoResult,
     forwarded |-> <<>>]

NoAttrs == [op |-> "none"]

----------------------------------------------------------------------------
\* Actions

NoBoundsOut ==
    [src |-> <<>>, img |-> NoImage, rec |-> NoBounds, scanned |-> FALSE,
     dropped |-> FALSE]

NothingCleared == [images |-> {}, bounds |-> {}]

\* The widths and heights of the bitmaps given to filterBackgroundColor and
\* analyzeContentBounds.
Dimensions ==
    {d \in (1..MaxPixels) \X (1..MaxPixels) : d[1] * d[2] <= MaxPixels}

\* img and threshold: the arguments.  op: the function called last.
\* filtered: the outcome of filterBackgroundColor.  of and bounds: the image
\* analyzeContentBounds was given and the record it returned.
NoPix ==
    [img |-> NoBitmap, threshold |-> COLOR_THRESHOLD, op |-> "none",
     filtered |-> [ok |-> FALSE, img |-> NoBitmap],
     of |-> NoBitmap, bounds |-> NoBounds]

InitLoader ==
    /\ imageCache = EmptyMap
    /\ contentBoundsCache = EmptyMap
    /\ webpSupported = "null"
    /\ imageLoadCallbacks = {}
    /\ webpDecodes \in BOOLEAN
    /\ calls = [c \in CallIds |-> IdleCall]
    /\ firstResult = [l \in Locators |-> NoImage]
    /\ justCleared = NothingCleared
    /\ ret = IdleCall
    /\ notified = NoCalls
    /\ boundsOut = NoBoundsOut
    /\ gen = InitialGen
    /\ panel = InitialPanel

Init ==
    /\ InitLoader
    /\ pix = NoPix
    /\ provider = InitialProvider(NoItem)
    /\ attrs = NoAttrs

\* A client holds a bitmap.
InitPixels ==
    /\ InitLoader
    /\ \E d \in Dimensions :
          \E data \in [1..(d[1] * d[2]) -> PixelSamples],
             canvas \in CanvasKinds :
                pix = [NoPix EXCEPT !.img = Image(d[1], d[2], data, canvas),
                                    !.op = "input"]
    /\ provider = InitialProvider(NoItem)
    /\ attrs = NoAttrs

\* Call c took a step that left it as r and ran the callbacks n times.
Commit(c, r, n) ==
    /\ calls' = [calls EXCEPT ![c] = IF r.pc \in Final THEN RetiredCall ELSE r]
    /\ ret' = r
    /\ notified' = n
    /\ boundsOut' = NoBoundsOut
    /\ firstResult' =
          IF /\ r.li = "ok"
             /\ calls[c].li # "ok"
             /\ firstResult[r.src] = NoImage
          THEN [firstResult EXCEPT ![r.src] = r.img]
          ELSE firstResult
    /\ justCleared' = [justCleared EXCEPT !.images = {}]
    /\ UNCHANGED <<pix, gen, provider, panel, attrs>>

\* A step of no call.
NoCallStep ==
    /\ ret' = IdleCall
    /\ notified' = NoCalls
    /\ UNCHANGED <<calls, pix, gen, provider, panel, attrs>>

InFlight == {c \in CallIds : calls[c].pc \notin {"idle", "retired"}}

CanStart(c) ==
    /\ calls[c].pc = "idle"
    /\ Cardinality(InFlight) < MaxInFlight
    /\ IF c = 1 THEN TRUE ELSE calls[c - 1].pc # "idle"

\* What a call that starts now finds: the first result, or that the entry
\* was removed by the clear just before.
FirstOrCleared ==
    [l \in Locators |-> IF l \in justCleared.images
                        THEN ClearedImage ELSE firstResult[l]]

\* A client calls loadImage(src).
CallLoadImage(c, src) ==
    /\ CanStart(c)
    /\ Commit(c, loadImage(NewCall("loadImage", src, FALSE),
                           imageCache, webpSupported,
                           FirstOrCleared), NoCalls)
    /\ UNCHANGED <<imageCache, contentBoundsCache, webpSupported,
                   imageLoadCallbacks, webpDecodes>>

\* A client calls loadSpriteImage(src, applyFilter).
CallLoadSpriteImage(c, src, applyFilter) ==
    /\ CanStart(c)
    /\ Commit(c, loadSpriteImage(NewCall("loadSpriteImage", src, applyFilter),
                                 imageCache, webpSupported, FirstOrCleared),
              NoCalls)
    /\ UNCHANGED <<imageCache, contentBoundsCache, webpSupported,
                   imageLoadCallbacks, webpDecodes>>

\* The probe image of checkWebPSupport loads.
checkWebPSupport_onload(c) ==
    /\ calls[c].pc = "probing"
    /\ webpDecodes
    /\ webpSupported' = "true"
    /\ Commit(c, loadImage_probed([calls[c] EXCEPT !.ev = "probed"], TRUE),
              NoCalls)
    /\ UNCHANGED <<imageCache, contentBoundsCache, imageLoadCallbacks,
                   webpDecodes>>

\* The probe image of checkWebPSupport fails to decode.
checkWebPSupport_onerror(c) ==
    /\ calls[c].pc = "probing"
    /\ ~webpDecodes
    /\ webpSupported' = "false"
    /\ Commit(c, loadImage_probed([calls[c] EXCEPT !.ev = "probed"], FALSE),
              NoCalls)
    /\ UNCHANGED <<imageCache, contentBoundsCache, imageLoadCallbacks,
                   webpDecodes>>

\* The WebP variant loads: loadImageDirect's onload, then loadImage resumes.
WebpLoaded(c) ==
    /\ calls[c].pc = "fetchWebp"
    /\ LET b == loadImage_webpLoaded(
                    loadImageDirect_onload(imageCache, calls[c], c,
                                           getWebPPath(calls[c].src),
                                           imageLoadCallbacks))
       IN  /\ imageCache' = b.cache
           /\ Commit(c, b.call, b.notified)
    /\ UNCHANGED <<contentBoundsCache, webpSupported, imageLoadCallbacks,
                   webpDecodes>>

\* The WebP variant fails: loadImage catches and falls back to the original.
WebpFailed(c) ==
    /\ calls[c].pc = "fetchWebp"
    /\ Commit(c, loadImage_webpFailed(calls[c]), NoCalls)
    /\ UNCHANGED <<imageCache, contentBoundsCache, webpSupported,
                   imageLoadCallbacks, webpDecodes>>

\* The original loads.
OrigLoaded(c) ==
    /\ calls[c].pc = "fetchOrig"
    /\ LET b == loadImage_origLoaded(
                    loadImageDirect_onload(imageCache, calls[c], c,
                                           calls[c].src, imageLoadCallbacks))
       IN  /\ imageCache' = b.cache
           /\ Commit(c, b.call, b.notified)
    /\ UNCHANGED <<contentBoundsCache, webpSupported, imageLoadCallbacks,
                   webpDecodes>>

\* The original fails: loadImageDirect rejects and so does loadImage.
OrigFailed(c) ==
    /\ calls[c].pc = "fetchOrig"
    /\ Commit(c, loadImage_rejected(calls[c]), NoCalls)
    /\ UNCHANGED <<imageCache, contentBoundsCache, webpSupported,
                   imageLoadCallbacks, webpDecodes>>

\* filterBackgroundColor resolves with the filtered image.
FilterLoaded(c) ==
    /\ calls[c].pc = "filter"
    /\ LET b == loadSpriteImage_filtered(imageCache, calls[c], c)
       IN  /\ imageCache' = b.cache
           /\ Commit(c, b.call, b.notified)
    /\ UNCHANGED <<contentBoundsCache, webpSupported, imageLoadCallbacks,
                   webpDecodes>>

\* filterBackgroundColor rejects.
FilterFailed(c) ==
    /\ calls[c].pc = "filter"
    /\ Commit(c, [calls[c] EXCEPT !.pc = "failed", !.ev = "filterFailed"],
              NoCalls)
    /\ UNCHANGED <<imageCache, contentBoundsCache, webpSupported,
                   imageLoadCallbacks, webpDecodes>>

\* onImageLoaded(cb)
onImageLoaded(cb) ==
    /\ cb \notin imageLoadCallbacks
    /\ imageLoadCallbacks' = imageLoadCallbacks \cup {cb}
    /\ NoCallStep
    /\ boundsOut' = NoBoundsOut
    /\ UNCHANGED <<imageCache, contentBoundsCache, webpSupported, webpDecodes,
                   firstResult, justCleared>>

\* The cleanup function that onImageLoaded(cb) returned
Unsubscribe(cb) ==
    /\ cb \in imageLoadCallbacks
    /\ imageLoadCallbacks' = imageLoadCallbacks \ {cb}
    /\ NoCallStep
    /\ boundsOut' = NoBoundsOut
    /\ UNCHANGED <<imageCache, contentBoundsCache, webpSupported, webpDecodes,
                   firstResult, justCleared>>

\* clearImageCache that forgets the content-bounds cache
clearImageCache_imagesOnly ==
    /\ imageCache # EmptyMap \/ contentBoundsCache # EmptyMap
    /\ imageCache' = EmptyMap
    /\ firstResult' = [l \in Locators |-> NoImage]
    /\ justCleared' = [images |-> DOMAIN imageCache,
                       bounds |-> DOMAIN contentBoundsCache]
    /\ NoCallStep
    /\ boundsOut' = NoBoundsOut
    /\ UNCHANGED <<contentBoundsCache, webpSupported, imageLoadCallbacks,
                   webpDecodes>>

\* clearImageCache()
clearImageCache ==
    /\ imageCache # EmptyMap \/ contentBoundsCache # EmptyMap
    /\ imageCache' = EmptyMap
    /\ contentBoundsCache' = EmptyMap
    /\ firstResult' = [l \in Locators |-> NoImage]
    /\ justCleared' = [images |-> DOMAIN imageCache,
                       bounds |-> DOMAIN contentBoundsCache]
    /\ NoCallStep
    /\ boundsOut' = NoBoundsOut
    /\ UNCHANGED <<webpSupported, imageLoadCallbacks, webpDecodes>>

\* The images a client passes to getContentBounds.
BoundsInputs == {Decoded(0, PngA), Filtered(0, Decoded(0, PngA))}

\* getContentBounds(src, img) on the bounds cache m, bitmap being the pixels
\* of img: the cache it leaves, the record it returns and whether it scanned.
getContentBounds_rescan(m, src, bitmap) ==
    LET bounds == analyzeContentBounds(bitmap)
    IN  [cache |-> MapSet(m, src, bounds), rec |-> bounds, scanned |-> TRUE]

getContentBounds_on(m, src, bitmap) ==
    IF MapHas(m, src)
    THEN [cache |-> m, rec |-> m[src], scanned |-> FALSE]
    ELSE LET bounds == analyzeContentBounds(bitmap)
         IN  [cache |-> MapSet(m, src, bounds), rec |-> bounds,
              scanned |-> TRUE]

\* getContentBounds(src, img)
getContentBounds(src, img) ==
    /\ LET out == getContentBounds_on(contentBoundsCache, src, Bitmap(img))
       IN  /\ contentBoundsCache' = out.cache
           /\ boundsOut' = [src |-> src, img |-> img, rec |-> out.rec,
                            scanned |-> out.scanned,
                            dropped |-> src \in justCleared.bounds]
    /\ NoCallStep
    /\ justCleared' = [justCleared EXCEPT !.bounds = {}]
    /\ UNCHANGED <<imageCache, webpSupported, imageLoadCallbacks, webpDecodes,
                   firstResult>>

\* Every operation, with at most MaxCallsAll calls of which at most
\* MaxInFlightAll are in flight.
Next ==
    \/ \E c \in 1..MaxCallsAll, src \in Locators :
          Cardinality(InFlight) < MaxInFlightAll /\ CallLoadImage(c, src)
    \/ \E c \in 1..MaxCallsAll, src \in SpriteLocators, f \in BOOLEAN :
          /\ Cardinality(InFlight) < MaxInFlightAll
          /\ CallLoadSpriteImage(c, src, f)
    \/ \E c \in CallIds : checkWebPSupport_onload(c)
    \/ \E c \in CallIds : checkWebPSupport_onerror(c)
    \/ \E c \in CallIds : WebpLoaded(c)
    \/ \E c \in CallIds : WebpFailed(c)
    \/ \E c \in CallIds : OrigLoaded(c)
    \/ \E c \in CallIds : OrigFailed(c)
    \/ \E c \in CallIds : FilterLoaded(c)
    \/ \E c \in CallIds : FilterFailed(c)
    \/ \E cb \in FewCallbacks : onImageLoaded(cb)
    \/ \E cb \in FewCallbacks : Unsubscribe(cb)
    \/ clearImageCache
    \/ \E src \in BoundsLocators, img \in BoundsInputs :
          getContentBounds(src, img)

Spec == Init /\ [][Next]_vars

\* The loads and the clear alone, with MaxCalls calls.
NextLoader ==
    \/ \E c \in CallIds, src \in Locators : CallLoadImage(c, src)
    \/ \E c \in CallIds, src \in SpriteLocators, f \in BOOLEAN :
          CallLoadSpriteImage(c, src, f)
    \/ \E c \in CallIds : checkWebPSupport_onload(c)
    \/ \E c \in CallIds : checkWebPSupport_onerror(c)
    \/ \E c \in CallIds : WebpLoaded(c)
    \/ \E c \in CallIds : WebpFailed(c)
    \/ \E c \in CallIds : OrigLoaded(c)
    \/ \E c \in CallIds : OrigFailed(c)
    \/ \E c \in CallIds : FilterLoaded(c)
    \/ \E c \in CallIds : FilterFailed(c)
    \/ clearImageCache

SpecLoader == Init /\ [][NextLoader]_vars

\* The loads, the clear and the listeners, with at most MaxCallsNotify calls.
NextNotify ==
    \/ \E c \in 1..MaxCallsNotify, src \in Locators : CallLoadImage(c, src)
    \/ \E c \in 1..MaxCallsNotify, src \in SpriteLocators, f \in BOOLEAN :
          CallLoadSpriteImage(c, src, f)
    \/ \E c \in CallIds : checkWebPSupport_onload(c)
    \/ \E c \in CallIds : checkWebPSupport_onerror(c)
    \/ \E c \in CallIds : WebpLoaded(c)
    \/ \E c \in CallIds : WebpFailed(c)
    \/ \E c \in CallIds : OrigLoaded(c)
    \/ \E c \in CallIds : OrigFailed(c)
    \/ \E c \in CallIds : FilterLoaded(c)
    \/ \E c \in CallIds : FilterFailed(c)
    \/ \E cb \in Callbacks : onImageLoaded(cb)
    \/ \E cb \in Callbacks : Unsubscribe(cb)
    \/ clearImageCache

SpecNotify == Init /\ [][NextNotify]_vars

\* Calls of loadImage all of whose fetches succeed, with nothing else going
\* on: at most MaxCallsPair calls.
NextPair ==
    \/ \E c \in 1..MaxCallsPair, src \in Locators : CallLoadImage(c, src)
    \/ \E c \in CallIds : checkWebPSupport_onload(c)
    \/ \E c \in CallIds : checkWebPSupport_onerror(c)
    \/ \E c \in CallIds : WebpLoaded(c)
    \/ \E c \in CallIds : OrigLoaded(c)

SpecPair == Init /\ [][NextPair]_vars

\* A client calls filterBackgroundColor(img, threshold) on its bitmap.
CallFilterBackgroundColor ==
    /\ pix.op = "input"
    /\ \E threshold \in Thresholds :
          pix' = [pix EXCEPT !.op = "filterBackgroundColor",
                            !.threshold = threshold,
                            !.filtered = filterBackgroundColor(pix.img,
                                                               threshold)]
    /\ UNCHANGED <<imageCache, contentBoundsCache, webpSupported,
                   imageLoadCallbacks, webpDecodes, calls, firstResult,
                   justCleared, ret, notified, boundsOut, gen,
                   provider, panel, attrs>>

\* A client calls analyzeContentBounds(img) on its bitmap.
CallAnalyzeContentBounds ==
    /\ pix.op = "input"
    /\ pix' = [pix EXCEPT !.op = "analyzeContentBounds",
                          !.of = pix.img,
                          !.bounds = analyzeContentBounds(pix.img)]
    /\ UNCHANGED <<imageCache, contentBoundsCache, webpSupported,
                   imageLoadCallbacks, webpDecodes, calls, firstResult,
                   justCleared, ret, notified, boundsOut, gen,
                   provider, panel, attrs>>

\* A client calls analyzeContentBounds on the image its filter resolved with.
CallAnalyzeFiltered ==
    /\ pix.op = "filterBackgroundColor"
    /\ pix.filtered.ok
    /\ pix' = [pix EXCEPT !.op = "analyzeContentBounds",
                          !.of = pix.filtered.img,
                          !.bounds = analyzeContentBounds(pix.filtered.img)]
    /\ UNCHANGED <<imageCache, contentBoundsCache, webpSupported,
                   imageLoadCallbacks, webpDecodes, calls, firstResult,
                   justCleared, ret, notified, boundsOut, gen,
                   provider, panel, attrs>>

\* A client calls getContentBounds(src, img) on its bitmap.
CallGetContentBounds(src) ==
    /\ pix.op = "input"
    /\ LET out == getContentBounds_on(contentBoundsCache, src, pix.img)
       IN  /\ contentBoundsCache' = out.cache
           /\ pix' = [pix EXCEPT !.op = "getContentBounds",
                                 !.of = pix.img,
                                 !.bounds = out.rec]
    /\ UNCHANGED <<imageCache, webpSupported, imageLoadCallbacks, webpDecodes,
                   calls, firstResult, justCleared, ret, notified, boundsOut, gen,
                   provider, panel, attrs>>

\* An analyzer that keeps its record in the bounds cache
CallAnalyzeAgain_cached ==
    /\ pix.op \in {"analyzeContentBounds", "getContentBounds"}
    /\ pix' = [pix EXCEPT !.op = "analyzedAgain",
                          !.bounds = analyzeContentBounds(pix.of)]
    /\ contentBoundsCache' =
          MapSet(contentBoundsCache, FiltA, analyzeContentBounds(pix.of))
    /\ UNCHANGED <<imageCache, webpSupported, imageLoadCallbacks, webpDecodes,
                   calls, firstResult, justCleared, ret, notified, boundsOut, gen,
                   provider, panel, attrs>>

\* The client calls analyzeContentBounds once more on the bitmap that was
\* analyzed.
CallAnalyzeAgain ==
    /\ pix.op \in {"analyzeContentBounds", "getContentBounds"}
    /\ pix' = [pix EXCEPT !.op = "analyzedAgain",
                          !.bounds = analyzeContentBounds(pix.of)]
    /\ UNCHANGED <<imageCache, contentBoundsCache, webpSupported,
                   imageLoadCallbacks, webpDecodes, calls, firstResult,
                   justCleared, ret, notified, boundsOut, gen,
                   provider, panel, attrs>>

\* The chroma filter, the analyzer and the bounds cache on one bitmap.
NextPixels ==
    \/ CallFilterBackgroundColor
    \/ CallAnalyzeContentBounds
    \/ CallAnalyzeFiltered
    \/ \E src \in BoundsLocators : CallGetContentBounds(src)
    \/ CallAnalyzeAgain

SpecPixels == InitPixels /\ [][NextPixels]_vars

----------------------------------------------------------------------------
\* The generator hook

\* The body of a request of fetch, and the image preload as a request.
Request(step, prompt, aspectRatio, imageUrl) ==
    [step |-> step, prompt |-> prompt, aspectRatio |-> aspectRatio,
     imageUrl |-> imageUrl]

\* The messages a failing stage can end with.
FailuresOf ==
    [aspect   |-> {NetworkError, ServerError, StageErrors.aspect},
     generate |-> {NetworkError, ServerError, StageErrors.generate,
                   "Image generation failed - no image URL returned"},
     analyze  |-> {NetworkError, ServerError, StageErrors.analyze,
                   "Analysis failed - no attributes returned"},
     preload  |-> {StageErrors.preload}]

\* The state updates of one run of the hook's code are applied together.

\* generate with a blank prompt
generate_blank(g) ==
    [g EXCEPT !.error = "Please enter a building description",
              !.step = "error"]

\* generate(prompt) up to its first await, as call c
generate_started(g, c, prompt) ==
    [g EXCEPT !.step = "generating", !.error = NoError, !.result = NoResult,
              !.calls[c] =
                  [IdleGenCall EXCEPT
                      !.pc = "aspect", !.prompt = prompt,
                      !.sent = <<Request("get-aspect-ratio", trim(prompt),
                                         "", "null")>>]]

\* The catch block, with the message of the error thrown
generate_catch(g, c, msg) ==
    [g EXCEPT !.error = msg, !.step = "error", !.calls[c].pc = "failed"]

\* The aspect ratio arrived: the generate request is sent.
generate_aspect(g, c, answer) ==
    LET aspectRatio == IF answer = "" THEN "4:5" ELSE answer
    IN  [g EXCEPT !.calls[c].pc = "generate",
                  !.calls[c].aspectRatio = aspectRatio,
                  !.calls[c].sent =
                      Append(@, Request("generate", trim(g.calls[c].prompt),
                                        aspectRatio, "null"))]

\* The image URL arrived: the analyze request is sent.
generate_generated(g, c, imageUrl) ==
    [g EXCEPT !.calls[c].pc = "analyze",
              !.calls[c].imageUrl = imageUrl,
              !.calls[c].sent =
                  Append(@, Request("analyze", <<>>, "", imageUrl))]

\* A hook that shows the result as soon as the attributes arrive
generate_analyzed_shown(g, c, attributes) ==
    [g EXCEPT !.calls[c].pc = "preload",
              !.calls[c].attributes = attributes,
              !.calls[c].sent =
                  Append(@, Request("preload", <<>>, "", g.calls[c].imageUrl)),
              !.result = [imageUrl |-> g.calls[c].imageUrl,
                          prompt |-> trim(g.calls[c].prompt),
                          attributes |-> attributes],
              !.step = "complete"]

\* The attributes arrived: the image is preloaded.
generate_analyzed(g, c, attributes) ==
    [g EXCEPT !.calls[c].pc = "preload",
              !.calls[c].attributes = attributes,
              !.calls[c].sent =
                  Append(@, Request("preload", <<>>, "", g.calls[c].imageUrl))]

\* The image is loaded: the result is set.
generate_preloaded(g, c) ==
    [g EXCEPT !.calls[c].pc = "complete",
              !.result = [imageUrl |-> g.calls[c].imageUrl,
                          prompt |-> trim(g.calls[c].prompt),
                          attributes |-> g.calls[c].attributes],
              !.step = "complete"]

\* reset()
reset(g) ==
    [g EXCEPT !.step = "idle", !.result = NoResult, !.error = NoError]

\* The hook's steps leave the image loader alone.
GenStep ==
    UNCHANGED <<imageCache, contentBoundsCache, webpSupported,
                imageLoadCallbacks, webpDecodes, calls, firstResult,
                justCleared, ret, notified, boundsOut, pix, provider,
                panel, attrs>>

\* Call ids are used in order.
CanGenerate(c) ==
    /\ gen.calls[c].pc = "idle"
    /\ IF c = 1 THEN TRUE ELSE gen.calls[c - 1].pc # "idle"

\* generate(prompt)
CallGenerate(c, prompt) ==
    /\ IF trim(prompt) = <<>>
       THEN gen' = generate_blank(gen)
       ELSE CanGenerate(c) /\ gen' = generate_started(gen, c, prompt)
    /\ GenStep

\* The answer to the get-aspect-ratio request of call c
AspectResponded(c, answer) ==
    /\ gen.calls[c].pc = "aspect"
    /\ gen' = generate_aspect(gen, c, answer)
    /\ GenStep

AspectFailed(c, msg) ==
    /\ gen.calls[c].pc = "aspect"
    /\ gen' = generate_catch(gen, c, msg)
    /\ GenStep

\* The answer to the generate request of call c
GenerateResponded(c, imageUrl) ==
    /\ gen.calls[c].pc = "generate"
    /\ gen' = generate_generated(gen, c, imageUrl)
    /\ GenStep

GenerateFailed(c, msg) ==
    /\ gen.calls[c].pc = "generate"
    /\ gen' = generate_catch(gen, c, msg)
    /\ GenStep

\* The answer to the analyze request of call c
AnalyzeResponded(c, attributes) ==
    /\ gen.calls[c].pc = "analyze"
    /\ gen' = generate_analyzed(gen, c, attributes)
    /\ GenStep

AnalyzeFailed(c, msg) ==
    /\ gen.calls[c].pc = "analyze"
    /\ gen' = generate_catch(gen, c, msg)
    /\ GenStep

\* img.onload and img.onerror of the preload of call c
PreloadLoaded(c) ==
    /\ gen.calls[c].pc = "preload"
    /\ gen' = generate_preloaded(gen, c)
    /\ GenStep

PreloadFailed(c) ==
    /\ gen.calls[c].pc = "preload"
    /\ \E msg \in FailuresOf.preload : gen' = generate_catch(gen, c, msg)
    /\ GenStep

\* reset()
CallReset ==
    /\ gen' = reset(gen)
    /\ GenStep

NextGen ==
    \/ \E c \in GenCallIds, prompt \in Prompts : CallGenerate(c, prompt)
    \/ \E c \in GenCallIds, answer \in AspectRatios : AspectResponded(c, answer)
    \/ \E c \in GenCallIds, msg \in FailuresOf.aspect : AspectFailed(c, msg)
    \/ \E c \in GenCallIds, u \in ImageUrls : GenerateResponded(c, u)
    \/ \E c \in GenCallIds, msg \in FailuresOf.generate : GenerateFailed(c, msg)
    \/ \E c \in GenCallIds, a \in Attributes : AnalyzeResponded(c, a)
    \/ \E c \in GenCallIds, msg \in FailuresOf.analyze : AnalyzeFailed(c, msg)
    \/ \E c \in GenCallIds : PreloadLoaded(c)
    \/ \E c \in GenCallIds : PreloadFailed(c)
    \/ CallReset

SpecGen == Init /\ [][NextGen]_vars

----------------------------------------------------------------------------
\* The custom-buildings provider

\* The provider's steps leave everything else alone.
ProviderStep ==
    UNCHANGED <<imageCache, contentBoundsCache, webpSupported,
                imageLoadCallbacks, webpDecodes, calls, firstResult,
                justCleared, ret, notified, boundsOut, pix, gen, panel,
                attrs>>

\* The provider at the start of the step op(arg).
Fresh(p, op, arg) ==
    [p EXCEPT !.wrote = <<>>, !.read = FALSE, !.preloads = {},
              !.op = op, !.arg = arg]

\* The first effect: load from localStorage and preload the sprites.
loadEffect(p) ==
    IF ~p.hasLoaded
    THEN LET loaded == loadCustomBuildings(p.item)
         IN  [p EXCEPT !.customBuildings = loaded,
                       !.stale = TRUE,
                       !.hasLoaded = TRUE,
                       !.read = TRUE,
                       !.preloads = {loaded[i].id : i \in 1..Len(loaded)}]
    ELSE p

\* The second effect, in a render whose customBuildings is rendered.
saveEffect(p, rendered, quota) ==
    IF p.hasLoaded
    THEN [p EXCEPT !.item = saveCustomBuildings(p.item, rendered, quota),
                   !.wrote = Append(@, rendered)]
    ELSE p

\* The provider is mounted: its first render, with the initial state, and
\* the two effects of that render, in the order of their declaration.
Mount(quota) ==
    /\ ~provider.mounted
    /\ LET p == [Fresh(provider, "mount", "null") EXCEPT !.mounted = TRUE]
       IN  provider' = saveEffect(loadEffect(p), p.customBuildings, quota)
    /\ ProviderStep

\* The pending render: customBuildings has changed, so the second effect
\* runs again.
Rerender(quota) ==
    /\ provider.mounted
    /\ provider.stale
    /\ LET p == [Fresh(provider, "render", "null") EXCEPT !.stale = FALSE]
       IN  provider' = saveEffect(p, p.customBuildings, quota)
    /\ ProviderStep

\* addCustomBuilding(building)
addCustomBuilding(building) ==
    /\ provider.mounted
    /\ provider' =
          [Fresh(provider, "addCustomBuilding", building.id) EXCEPT
              !.preloads = {building.id},
              !.customBuildings = addCustomBuilding_updater(@, building),
              !.stale = TRUE]
    /\ ProviderStep

\* removeCustomBuilding(id)
removeCustomBuilding(id) ==
    /\ provider.mounted
    /\ provider' =
          [Fresh(provider, "removeCustomBuilding", id) EXCEPT
              !.customBuildings = removeCustomBuilding_updater(@, id),
              !.selected = removeCustomBuilding_selection(@, id),
              !.stale = TRUE]
    /\ ProviderStep

\* selectCustomBuilding(id)
selectCustomBuilding(id) ==
    /\ provider.mounted
    /\ provider' =
          [Fresh(provider, "selectCustomBuilding", id) EXCEPT !.selected = id]
    /\ ProviderStep

\* clearSelection()
clearSelection ==
    /\ provider.mounted
    /\ provider' =
          [Fresh(provider, "clearSelection", "null") EXCEPT !.selected = "null"]
    /\ ProviderStep

\* The provider leaves the tree: its state and its ref are gone, the
\* localStorage item stays.
Unmount ==
    /\ provider.mounted
    /\ provider' = InitialProvider(provider.item)
    /\ ProviderStep

\* The ids of the buildings in the list.
IdsOf(list) == {list[i].id : i \in 1..Len(list)}

\* Clients select null or a building of the list.
NextProvider ==
    \/ \E quota \in BOOLEAN : Mount(quota)
    \/ \E quota \in BOOLEAN : Rerender(quota)
    \/ \E building \in CustomBuildings : addCustomBuilding(building)
    \/ \E id \in BuildingIds : removeCustomBuilding(id)
    \/ \E id \in IdsOf(provider.customBuildings) \cup {"null"} :
          selectCustomBuilding(id)
    \/ clearSelection
    \/ Unmount

\* The page is opened with something under STORAGE_KEY.
InitProvider ==
    /\ InitLoader
    /\ pix = NoPix
    /\ attrs = NoAttrs
    /\ \/ \E kind \in {"null", "empty", "garbage", "object"} :
             provider = InitialProvider(Item(kind, <<>>))
       \/ \E n \in 0..MaxStored :
             \E items \in [1..n -> StoredEntries] :
                provider = InitialProvider(Item("array", items))

SpecProvider == InitProvider /\ [][NextProvider]_vars

----------------------------------------------------------------------------
\* The panel

\* At most MaxPanelCalls generations are started from the panel.
MaxPanelCalls == 1

\* What the user types as a name.
EditedNames == {"", "Hut"}

\* result.attributes.suggestedName
suggestedName(attributes) == IF attributes = "null" THEN "" ELSE "Suggested"

\* A close that resets whatever the step is
handleOpenChange_always(g, pn, newOpen) ==
    IF ~newOpen
    THEN [gen |-> reset(g),
          panel |-> [pn EXCEPT !.prompt = <<>>, !.editedName = "",
                               !.forwarded = <<newOpen>>]]
    ELSE [gen |-> g, panel |-> [pn EXCEPT !.forwarded = <<newOpen>>]]

\* handleOpenChange(newOpen) in a render whose step is g.step: the
\* generator and the panel it leaves
handleOpenChange_on(g, pn, newOpen) ==
    IF ~newOpen /\ g.step # "generating"
    THEN [gen |-> reset(g),
          panel |-> [pn EXCEPT !.prompt = <<>>, !.editedName = "",
                               !.forwarded = <<newOpen>>]]
    ELSE [gen |-> g, panel |-> [pn EXCEPT !.forwarded = <<newOpen>>]]

\* The panel's steps leave the loader, the provider and the route alone.
PanelStep ==
    UNCHANGED <<imageCache, contentBoundsCache, webpSupported,
                imageLoadCallbacks, webpDecodes, calls, firstResult,
                justCleared, ret, notified, boundsOut, pix, provider, attrs>>

\* The user types into the prompt field, which the input step shows.
setPrompt(prompt) ==
    /\ gen.step \in {"idle", "error"}
    /\ panel' = [panel EXCEPT !.prompt = prompt, !.forwarded = <<>>]
    /\ UNCHANGED gen
    /\ PanelStep

\* The user types into the name field, which is shown with the result.
setEditedName(name) ==
    /\ gen.step = "complete"
    /\ panel' = [panel EXCEPT !.editedName = name, !.forwarded = <<>>]
    /\ UNCHANGED gen
    /\ PanelStep

\* handleGenerate(), from the input step
handleGenerate(c) ==
    /\ gen.step \in {"idle", "error"}
    /\ IF trim(panel.prompt) # <<>>
       THEN CanGenerate(c) /\ gen' = generate_started(gen, c, panel.prompt)
       ELSE UNCHANGED gen
    /\ panel' = [panel EXCEPT !.forwarded = <<>>]
    /\ PanelStep

\* handleConfirm(), from the result step
handleConfirm ==
    /\ gen.step = "complete"
    /\ IF gen.result = NoResult
       THEN /\ UNCHANGED gen
            /\ panel' = [panel EXCEPT !.forwarded = <<>>]
       ELSE /\ gen' = reset(gen)
            /\ panel' = [panel EXCEPT !.prompt = <<>>, !.editedName = "",
                                      !.forwarded = <<FALSE>>]
    /\ PanelStep

\* handleStartOver(), from the result step
handleStartOver ==
    /\ gen.step = "complete"
    /\ gen' = reset(gen)
    /\ panel' = [panel EXCEPT !.editedName = "", !.forwarded = <<>>]
    /\ PanelStep

\* handleOpenChange(newOpen)
handleOpenChange(newOpen) ==
    /\ LET out == handleOpenChange_on(gen, panel, newOpen)
       IN  gen' = out.gen /\ panel' = out.panel
    /\ PanelStep

\* The effect on result: a result with a suggested name fills the name field.
ResultEffect ==
    /\ gen.result # panel.seen
    /\ panel' = [panel EXCEPT
                    !.seen = gen.result,
                    !.editedName =
                        IF suggestedName(gen.result.attributes) # ""
                        THEN suggestedName(gen.result.attributes)
                        ELSE @,
                    !.forwarded = <<>>]
    /\ UNCHANGED gen
    /\ PanelStep

\* The panel and the generations it starts.
NextPanel ==
    \/ \E prompt \in Prompts : setPrompt(prompt)
    \/ \E name \in EditedNames : setEditedName(name)
    \/ \E c \in 1..MaxPanelCalls : handleGenerate(c)
    \/ handleConfirm
    \/ handleStartOver
    \/ \E newOpen \in BOOLEAN : handleOpenChange(newOpen)
    \/ ResultEffect
    \/ \E c \in GenCallIds, answer \in AspectRatios : AspectResponded(c, answer)
    \/ \E c \in GenCallIds : AspectFailed(c, NetworkError)
    \/ \E c \in GenCallIds, u \in ImageUrls : GenerateResponded(c, u)
    \/ \E c \in GenCallIds : GenerateFailed(c, ServerError)
    \/ \E c \in GenCallIds, a \in Attributes : AnalyzeResponded(c, a)
    \/ \E c \in GenCallIds : AnalyzeFailed(c, StageErrors.analyze)
    \/ \E c \in GenCallIds : PreloadLoaded(c)
    \/ \E c \in GenCallIds : PreloadFailed(c)

SpecPanel == Init /\ [][NextPanel]_vars

----------------------------------------------------------------------------
\* The analyze step of POST /api/generate-building

\* Numbers of the model's answer are counted in halves, so that 2 * n is the
\* integer n and 2 * n + 1 lies halfway between n and n + 1.  Each field
\* takes the values up to Spread halves away from the marks of its range.
Spread == 1

Around(marks) == {2 * m + k : m \in marks, k \in -Spread..Spread}

\* Math.round(x) for x = h / 2: to the nearest integer, a half goes up.
round(h) == (h + 1) \div 2

\* r || d for a rounded number r: 0 is falsy.
orDefault(r, d) == IF r = 0 THEN d ELSE r

min(a, b) == IF a < b THEN a ELSE b

max(a, b) == IF a > b THEN a ELSE b

clamp(x, lo, hi) == min(hi, max(lo, x))

Categories ==
    {"residential", "commercial", "industrial", "service", "recreation"}

\* The attributes parsed from the model's answer, with numeric fields.
AnalyzeInputs ==
    [category : {"recreation", "castle"},
     size : Around({0, 1, 4}),
     maxPop : Around({0}),
     maxJobs : Around({0}),
     pollution : Around({-25, 0, 55}),
     landValue : Around({-20, 0, 80}),
     suggestedCost : Around({0, 100}),
     suggestedName : {"", "Hut"}]

\* validatedAttributes
validatedAttributes(attributes) ==
    [category |-> IF attributes.category \in Categories
                  THEN attributes.category ELSE "commercial",
     size |-> min(4, max(1, orDefault(round(attributes.size), 1))),
     maxPop |-> max(0, orDefault(round(attributes.maxPop), 0)),
     maxJobs |-> max(0, orDefault(round(attributes.maxJobs), 0)),
     pollution |-> min(55, max(-25, orDefault(round(attributes.pollution), 0))),
     landValue |-> min(80, max(-20, orDefault(round(attributes.landValue), 10))),
     suggestedCost |->
         max(100, orDefault(round(attributes.suggestedCost), 500)),
     suggestedName |-> IF attributes.suggestedName = ""
                       THEN "Custom Building" ELSE attributes.suggestedName]

\* POST with step 'analyze', from the parsed answer to the response
analyze(attributes) ==
    /\ attrs' = [op |-> "analyze", input |-> attributes,
                 output |-> validatedAttributes(attributes)]
    /\ UNCHANGED <<imageCache, contentBoundsCache, webpSupported,
                   imageLoadCallbacks, webpDecodes, calls, firstResult,
                   justCleared, ret, notified, boundsOut, pix, gen, provider,
                   panel>>

\* One request is followed from the answer of the model to the response.
NextAnalyze ==
    /\ attrs.op = "none"
    /\ \E attributes \in AnalyzeInputs : analyze(attributes)

SpecAnalyze == Init /\ [][NextAnalyze]_vars

----------------------------------------------------------------------------
\* Properties of the loader


\* Two bitmaps with the same pixels: decoded from the same locator and both
\* filtered or both not.
SameBitmap(a, b) == a.url = b.url /\ a.filtered = b.filtered

Last(q) == q[Len(q)]

\* The steps of a loadImage, by the event they leave in the call record.
LoadImageEvents == {"begin", "hit", "probed", "webpFailed", "loaded", "rejected"}

\* The last step was a call of loadImage (by a client or by loadSpriteImage).
Started == ret.ev \in {"begin", "hit"}

\* The call of loadImage found a first result that no clear has dropped.
HasFirstResult == ret.expect \notin {NoImage, ClearedImage}

\* The keys at which a step changes the bitmap cache.
ChangedKeys ==
    {k \in (DOMAIN imageCache) \cup (DOMAIN imageCache') :
        MapGet(imageCache, k) # MapGet(imageCache', k)}

\* C1, first sentence: a loadImage(L) that finds L cached returns exactly the
\* cached bitmap and starts no probe, fetches nothing, notifies nobody and
\* writes nothing to the cache.
C1_CacheHit ==
    (Started /\ ret.atStart # NoImage) =>
        /\ ret.ev = "hit"
        /\ ret.li = "ok"
        /\ ret.img = ret.atStart
        /\ ret.probes = 0
        /\ ret.fetches = <<>>
        /\ ret.writes = {}
        /\ notified = NoCalls
        /\ ret.op = "loadImage" => (ret.pc = "done" /\ ret.out = ret.atStart)

C2_Fallback ==
    /\ ret.ev = "webpFailed" =>
          /\ ret.li = "pending"
          /\ ret.pc = "fetchOrig"
          /\ ret.fetches = <<getWebPPath(ret.src), ret.src>>
          /\ ret.writes = {}
    /\ (ret.ev = "loaded" /\ Len(ret.fetches) = 2) =>
          /\ ret.fetches = <<getWebPPath(ret.src), ret.src>>
          /\ ret.li = "ok"
          /\ ret.img.url = ret.src
          /\ ~ret.img.filtered
          /\ MapGet(imageCache, ret.src) = ret.img
          /\ ret.op = "loadImage" => (ret.pc = "done" /\ ret.out = ret.img)
    /\ \A c \in CallIds :
          (/\ endsWithPng(calls[c].src)
           /\ webpSupported = "true"
           /\ calls[c].pc = "fetchOrig") =>
              /\ calls[c].ev = "webpFailed"
              /\ calls[c].fetches = <<getWebPPath(calls[c].src), calls[c].src>>

\* A loadImage has succeeded through the fallback to the original.
C2_Witness ==
    /\ ret.op = "loadImage"
    /\ ret.ev = "loaded"
    /\ ret.fetches = <<WebpA, PngA>>
    /\ ret.pc = "done"

\* C3: when the WebP fetch succeeds, loadImage returns the WebP bitmap, has
\* not fetched the original, and the cache holds that bitmap under the
\* original locator L, so that L is a cache hit from then on.
C3_Alternate ==
    (/\ ret.ev = "loaded"
     /\ getWebPPath(ret.src) # <<>>
     /\ Last(ret.fetches) = getWebPPath(ret.src)) =>
        /\ ret.fetches = <<getWebPPath(ret.src)>>
        /\ ret.li = "ok"
        /\ ret.img.url = getWebPPath(ret.src)
        /\ ~ret.img.filtered
        /\ MapHas(imageCache, ret.src)
        /\ imageCache[ret.src] = ret.img
        /\ ret.op = "loadImage" => (ret.pc = "done" /\ ret.out = ret.img)

\* A loadImage has succeeded through the WebP variant.
C3_Witness ==
    /\ ret.op = "loadImage"
    /\ ret.ev = "loaded"
    /\ ret.fetches = <<WebpA>>
    /\ ret.pc = "done"

\* C4: a loadImage whose last attempted variant fails (after the WebP variant
\* failed, when that was attempted) fails with an error; none of its steps
\* changes the bitmap cache or the bounds cache or runs a callback.
C4_TotalFailure ==
    /\ [](/\ ret.ev = "rejected" =>
                /\ ret.li = "err"
                /\ ret.pc = "failed"
                /\ ret.out = NoImage
                /\ ret.writes = {}
                /\ Last(ret.fetches) = ret.src
                /\ notified = NoCalls
          /\ ret.li = "err" => ret.ev = "rejected")
    /\ [][ret'.ev \in {"begin", "probed", "webpFailed", "rejected"} =>
             /\ imageCache' = imageCache
             /\ contentBoundsCache' = contentBoundsCache
             /\ notified' = NoCalls]_vars

\* Both variants have failed while both caches held entries and a listener
\* was registered.
C4_Witness ==
    /\ ret.ev = "rejected"
    /\ ret.fetches = <<WebpA, PngA>>
    /\ imageCache # EmptyMap
    /\ contentBoundsCache # EmptyMap
    /\ imageLoadCallbacks # {}

\* C5: the step in which a loadImage succeeds after a cache miss runs every
\* callback registered at that moment exactly once and no other callback; no
\* other step runs any callback (a failing loadImage, a cache hit, the filter
\* and the later steps of a call whose loadImage has succeeded included); the
\* cleanup function removes its callback from the registry, and only
\* onImageLoaded puts a callback into it.
C5_Notify ==
    /\ [](notified = IF ret.ev = "loaded"
                     THEN [cb \in Callbacks |->
                              IF cb \in imageLoadCallbacks THEN 1 ELSE 0]
                     ELSE NoCalls)
    /\ [][/\ \A c \in CallIds :
                (calls[c].li \in {"ok", "err"} /\ calls'[c] # calls[c]) =>
                    notified' = NoCalls
          /\ \A cb \in Callbacks :
                /\ Unsubscribe(cb) => cb \notin imageLoadCallbacks'
                /\ (cb \notin imageLoadCallbacks /\ cb \in imageLoadCallbacks')
                      => onImageLoaded(cb)]_vars

\* A load has succeeded through the fallback while one of the two callbacks
\* was registered.
C5_Witness ==
    /\ ret.ev = "loaded"
    /\ ret.fetches = <<WebpA, PngA>>
    /\ imageLoadCallbacks = {"cb1"}
    /\ notified["cb1"] = 1

\* C6 as claimed: whenever the listeners are notified of a successful
\* loadImage(L), the cache already holds the loaded bitmap under L.
C6_Claim == ret.ev = "loaded" => ret.seen = "hit"

\* C7 as claimed: a step of loadImage(L) changes the bitmap cache at most at
\* the key L and leaves the bounds cache alone.
C7_Original ==
    [][ret'.ev \in LoadImageEvents =>
          /\ ChangedKeys \subseteq {ret'.src}
          /\ contentBoundsCache' = contentBoundsCache]_vars

\* C7 as amended: a step of loadImage(L) changes the bitmap cache at most at
\* the key L and, in the step in which the WebP variant has loaded, at the
\* key of the WebP variant; it leaves the bounds cache alone.
C7_Amended ==
    [][ret'.ev \in LoadImageEvents =>
          /\ ChangedKeys \subseteq ret'.writes
          /\ ret'.writes \subseteq
                IF ret'.ev = "loaded"
                THEN IF Last(ret'.fetches) = ret'.src
                     THEN {ret'.src}
                     ELSE {ret'.src, getWebPPath(ret'.src)}
                ELSE {}
          /\ contentBoundsCache' = contentBoundsCache]_vars

\* The WebP variant has loaded and is cached under both keys, while the
\* bounds cache holds a record.
C7_Witness ==
    /\ ret.ev = "loaded"
    /\ ret.src = PngA
    /\ MapGet(imageCache, WebpA) = ret.img
    /\ MapGet(imageCache, PngA) = ret.img
    /\ contentBoundsCache # EmptyMap

\* C8: right after clearImageCache both caches are empty (no raw and no
\* filtered entry); the next loadImage of a locator that the clear removed
\* starts a fetch, and the next getContentBounds of a locator whose record the
\* clear removed scans the image it is given.
C8_Clear ==
    /\ [](/\ (Started /\ ret.expect = ClearedImage) =>
                /\ ret.ev = "begin"
                /\ ret.pc \in {"fetchWebp", "fetchOrig"}
                /\ Len(ret.fetches) = 1
          /\ boundsOut.dropped =>
                /\ boundsOut.scanned
                /\ boundsOut.rec = analyzeContentBounds(Bitmap(boundsOut.img))
                /\ MapGet(contentBoundsCache, boundsOut.src) = boundsOut.rec)
    /\ [][clearImageCache =>
             /\ DOMAIN imageCache' = {}
             /\ DOMAIN contentBoundsCache' = {}
             /\ \A l \in Locators, f \in BOOLEAN :
                   ~MapHas(imageCache', cacheKeyOf(l, f))]_vars

\* After a clear, a load of a locator that had been cached is fetching again
\* and getContentBounds has scanned again for a locator that had a record.
C8_Witness ==
    /\ \E c \in CallIds :
          calls[c].expect = ClearedImage /\ Len(calls[c].fetches) = 1
    /\ boundsOut.dropped
    /\ boundsOut.scanned

\* C9 as claimed: at most one capability probe is ever started.  A probe
\* stays in flight until it stores its result, so this says that no two
\* probes are in flight together and that no probe starts once the result is
\* stored.
C9_Claim ==
    /\ Cardinality({c \in CallIds : calls[c].pc = "probing"}) <= 1
    /\ (webpSupported # "null") => (\A c \in CallIds : calls[c].pc # "probing")

\* C10: a loadImage of a locator that does not end in ".png" starts no probe
\* and fetches only that locator.
C10_NotPng ==
    \A r \in {ret} \cup {calls[c] : c \in CallIds} :
        (r.li # "none" /\ ~endsWithPng(r.src)) =>
            /\ r.probes = 0
            /\ r.pc # "probing"
            /\ \A i \in 1..Len(r.fetches) : r.fetches[i] = r.src

\* A locator that holds ".png" but does not end in it has been loaded.
C10_Witness ==
    /\ ret.src = FiltA
    /\ ret.ev = "loaded"
    /\ ret.fetches = <<FiltA>>
    /\ webpSupported = "true"

\* C11: the capability probe always answers: the step in which it ends stores
\* "true" or "false" and leaves loadImage pending, and a probe whose image
\* fails to decode stores "false" and makes loadImage fetch the original
\* locator; while the stored answer is "false" no call has fetched anything
\* but its own locator; the only error a loadImage ends with is the failure
\* of the fetch of its original locator.
C11_ProbeNeverFails ==
    /\ ret.ev = "probed" =>
          /\ webpSupported \in {"true", "false"}
          /\ webpSupported = "false" <=> ~webpDecodes
          /\ ret.li = "pending"
          /\ ret.probes = 1
          /\ ret.pc = IF webpSupported = "true" THEN "fetchWebp" ELSE "fetchOrig"
          /\ webpSupported = "false" => ret.fetches = <<ret.src>>
    /\ \A r \in {ret} \cup {calls[c] : c \in CallIds} :
          /\ (webpSupported = "false" /\ r.li # "none") =>
                /\ r.pc # "fetchWebp"
                /\ \A i \in 1..Len(r.fetches) : r.fetches[i] = r.src
          /\ r.li = "err" =>
                (r.ev = "rejected" /\ Last(r.fetches) = r.src)

\* The probe image failed to decode and the load has then succeeded with the
\* original locator alone.
C11_Witness ==
    /\ ret.ev = "loaded"
    /\ ret.probes = 1
    /\ webpSupported = "false"
    /\ ret.fetches = <<PngA>>
    /\ ret.li = "ok"

\* The variant of L that a loadImage(L) fetches when no fetch fails.
FirstVariant(l) ==
    IF endsWithPng(l) /\ webpSupported = "true" THEN getWebPPath(l) ELSE l

\* C12: when every fetch succeeds, every loadImage(L) that ends resolves (none
\* fails), and when it ends after a miss the cache holds under L the bitmap it
\* resolved with, decoded from the variant of L that every such call fetches;
\* every entry of the cache is decoded from its key's locator or from the
\* WebP variant of it; no step removes an entry, and a step that overwrites
\* an entry puts an equal bitmap in its place.
C12_Converge ==
    /\ [](/\ ret.ev = "loaded" =>
                /\ ret.li = "ok"
                /\ MapGet(imageCache, ret.src) = ret.img
                /\ ret.img = Decoded(ret.img.by, FirstVariant(ret.src))
                /\ ret.fetches = <<FirstVariant(ret.src)>>
          /\ \A c \in CallIds : calls[c].li # "err" /\ calls[c].pc # "failed"
          /\ ret.li # "err"
          /\ \A l \in DOMAIN imageCache :
                /\ imageCache[l].url \in {l, getWebPPath(l)}
                /\ ~imageCache[l].filtered)
    /\ [][/\ DOMAIN imageCache \subseteq DOMAIN imageCache'
          /\ \A l \in DOMAIN imageCache :
                SameBitmap(imageCache[l], imageCache'[l])]_vars

\* Two loadImage("a.png") ran concurrently: the first call's result was the
\* first to be stored, and the second call, which had missed the cache, has
\* now completed and overwritten the entry.
C12_Witness ==
    /\ ret.ev = "loaded"
    /\ ret.src = PngA
    /\ ret.atStart = NoImage
    /\ ret.img.by = 2
    /\ firstResult[PngA].by = 1
    /\ MapGet(imageCache, PngA) = ret.img
    /\ SameBitmap(firstResult[PngA], ret.img)

\* The cache keys a loadImage(L) reads or writes: L, which it looks up and
\* stores, and the WebP variant of L, which loadImageDirect stores.
KeysOf(l) == {l} \cup (IF getWebPPath(l) # <<>> THEN {getWebPPath(l)} ELSE {})

\* Call d of loadImage takes this step while call c of loadImage, of another
\* locator, is pending.
StepBeside(c, d) ==
    /\ c # d
    /\ calls'[d] # calls[d]
    /\ ret'.ev \in LoadImageEvents
    /\ calls[c].li = "pending"
    /\ calls[c].src # ret'.src

\* C13 as claimed: while a loadImage(A) is pending, no step of a loadImage(B)
\* of another locator B changes a cache entry that loadImage(A) reads or
\* writes.
C13_Original ==
    [][\A c, d \in CallIds :
          StepBeside(c, d) => ChangedKeys \cap KeysOf(calls[c].src) = {}]_vars

\* C13 as amended: a loadImage(A) that ends after a miss resolves with its own
\* decode of A or of A's WebP variant; while a loadImage(A) is pending, a step
\* of a loadImage(B) changes the cache at most at B and at B's WebP variant
\* and leaves the call of loadImage(A) as it is, so that it changes no entry
\* that loadImage(A) reads or writes unless one of A and B is the WebP variant
\* of the other.
C13_Amended ==
    /\ [](ret.ev = "loaded" =>
             /\ Last(ret.fetches) \in KeysOf(ret.src)
             /\ \E c \in CallIds : ret.img = Decoded(c, Last(ret.fetches))
             /\ MapGet(imageCache, Last(ret.fetches)) = ret.img)
    /\ [][\A c, d \in CallIds :
             StepBeside(c, d) =>
                /\ calls'[c] = calls[c]
                /\ ChangedKeys \subseteq KeysOf(ret'.src)
                /\ KeysOf(calls[c].src) \cap KeysOf(ret'.src) = {} =>
                      ChangedKeys \cap KeysOf(calls[c].src) = {}]_vars

\* loadImage("a.png_filtered") has stored its bitmap while a loadImage("a.png")
\* was pending with a fetch in flight.
C13_Witness ==
    /\ ret.ev = "loaded"
    /\ ret.src = FiltA
    /\ MapGet(imageCache, FiltA) = ret.img
    /\ \E c \in CallIds :
          /\ calls[c].op = "loadImage"
          /\ calls[c].src = PngA
          /\ calls[c].pc \in {"fetchWebp", "fetchOrig"}

\* C14: a step other than clearImageCache removes no key from the bitmap
\* cache and none from the bounds cache (a load, a failing load, a filter, an
\* analysis and a notification included); a bitmap entry that changes holds,
\* after the step, an image that the acting call created in that step; a
\* bounds record, once stored, stays as it is.
C14_OnlyGrow ==
    [][~clearImageCache =>
          /\ DOMAIN imageCache \subseteq DOMAIN imageCache'
          /\ DOMAIN contentBoundsCache \subseteq DOMAIN contentBoundsCache'
          /\ \A k \in ChangedKeys :
                /\ imageCache'[k] \in {ret'.img, ret'.out}
                /\ \E c \in CallIds :
                      /\ calls'[c] # calls[c]
                      /\ imageCache'[k].by = c
          /\ \A k \in DOMAIN contentBoundsCache :
                contentBoundsCache'[k] = contentBoundsCache[k]]_vars

\* The second call has replaced the entry under "a.webp" that the first call
\* had stored, while the bounds cache held a record and a listener was
\* registered.
C14_Witness ==
    /\ ret.ev = "loaded"
    /\ ret.src = PngA
    /\ firstResult[WebpA].by = 1
    /\ MapGet(imageCache, WebpA).by = 2
    /\ contentBoundsCache # EmptyMap
    /\ imageLoadCallbacks # {}

----------------------------------------------------------------------------
\* Properties of the chroma filter and of the analyzer

\* The Euclidean RGB distance of p from the background colour is strictly
\* greater than the non-negative integer t.
Far(p, t) == distance2(p) > t * t

\* filterBackgroundColor has resolved.
FilterResolved == pix.filtered.ok

\* The indices of the pixels of the bitmap given to the filter.
PixelIds == 1..Len(pix.img.data)

C16_Claim ==
    FilterResolved =>
        \A i \in PixelIds :
            ~Far(pix.img.data[i], pix.threshold) =>
                pix.filtered.img.data[i].a = 0

\* C17: when the loadImage of a loadSpriteImage(L, true) has resolved, the
\* cache holds under L the unfiltered bitmap it resolved with; the step in
\* which the filter resolves changes the cache at the filtered key of L alone,
\* so that the entry under L and the image given to the filter are as they
\* were; the filtered bitmap is another image, stored under the filtered key,
\* whose pixels are those of filterBackgroundColor applied to the input.
C17_InputKept ==
    /\ []((ret.op = "loadSpriteImage" /\ ret.pc = "filter") =>
             /\ MapGet(imageCache, ret.src) = ret.img
             /\ ~ret.img.filtered)
    /\ [](ret.ev = "filtered" =>
             /\ ~ret.img.filtered
             /\ ret.out.filtered
             /\ ret.out # ret.img
             /\ MapGet(imageCache, FilteredKey(ret.src)) = ret.out
             /\ MapGet(imageCache, ret.src) # ret.out
             /\ Bitmap(ret.out) =
                   filterBackgroundColor(Bitmap(ret.img), COLOR_THRESHOLD).img
             /\ Bitmap(ret.img) # Bitmap(ret.out))
    /\ [][ret'.ev = "filtered" =>
             /\ ChangedKeys \subseteq {FilteredKey(ret'.src)}
             /\ MapGet(imageCache', ret'.src) = MapGet(imageCache, ret'.src)
             /\ \E c \in CallIds :
                   /\ calls'[c] # calls[c]
                   /\ ret'.img = calls[c].img]_vars

\* loadSpriteImage("a.png", true) has completed: the raw bitmap is under
\* "a.png" and the filtered one under "a.png_filtered".
C17_Witness ==
    /\ ret.ev = "filtered"
    /\ ret.src = PngA
    /\ MapGet(imageCache, PngA) = ret.img
    /\ MapGet(imageCache, FiltA) = ret.out
    /\ Bitmap(ret.out).data[1].a = 0
    /\ Bitmap(ret.img).data[1].a = 255

\* The last step was a call of loadSpriteImage that went on to loadImage.
SpriteMissed == ret.op = "loadSpriteImage" /\ ret.ev \in {"begin", "hit"}

\* C18: a loadSpriteImage goes on to loadImage exactly if the cache has no
\* entry under its key (the filtered key of L with the filter, L without);
\* otherwise it returns that entry at once, without probe, fetch, filter,
\* cache write or notification.  With the filter, the call ends by storing the
\* filtered image under the filtered key of L and returning it, without
\* notification.  Without the filter, the call returns the image loadImage
\* resolved with, and no step of it changes the filtered key of L.  When the
\* filter fails the call fails and the cache stays as it is.
C18_Sprite ==
    /\ [](/\ SpriteMissed => ~MapHas(imageCache, cacheKeyOf(ret.src, ret.filt))
          /\ ret.ev = "spriteHit" =>
                /\ MapHas(imageCache, cacheKeyOf(ret.src, ret.filt))
                /\ ret.out = imageCache[cacheKeyOf(ret.src, ret.filt)]
                /\ ret.pc = "done"
                /\ ret.li = "none"
                /\ ret.fetches = <<>>
                /\ ret.probes = 0
                /\ ret.writes = {}
                /\ notified = NoCalls
          /\ ret.ev = "filtered" =>
                /\ ret.op = "loadSpriteImage" /\ ret.filt
                /\ ret.li = "ok"
                /\ ret.pc = "done"
                /\ ret.out.filtered
                /\ ret.out.url = ret.img.url
                /\ MapGet(imageCache, FilteredKey(ret.src)) = ret.out
                /\ notified = NoCalls
          /\ (ret.op = "loadSpriteImage" /\ ~ret.filt /\ ret.pc = "done"
                /\ ret.ev # "spriteHit") =>
                /\ ret.out = ret.img
                /\ ~ret.out.filtered
          /\ ret.ev = "filterFailed" =>
                /\ ret.pc = "failed"
                /\ ret.out = NoImage
                /\ notified = NoCalls)
    /\ [][/\ ret'.ev \in {"spriteHit", "filterFailed"} =>
                imageCache' = imageCache
          /\ (ret'.op = "loadSpriteImage" /\ ~ret'.filt) =>
                FilteredKey(ret'.src) \notin ChangedKeys]_vars

\* A later loadSpriteImage("a.png", true) has returned the filtered entry
\* while a listener was registered.
C18_Witness ==
    /\ ret.ev = "spriteHit"
    /\ ret.filt
    /\ ret.out.filtered
    /\ ret.out.by = 1
    /\ imageLoadCallbacks # {}
    /\ notified = NoCalls

\* The positions (x, y) of the bitmap given to analyzeContentBounds whose
\* alpha is strictly greater than 10.
Content ==
    {xy \in (0..(pix.of.width - 1)) \X (0..(pix.of.height - 1)) :
        pix.of.data[xy[2] * pix.of.width + xy[1] + 1].a > 10}

\* analyzeContentBounds has returned.
Analyzed == pix.op = "analyzeContentBounds"

\* C19 as claimed: for a bitmap with a pixel of alpha above 10, the record
\* analyzeContentBounds returns has as minX, maxX, minY and maxY the least and
\* the greatest column and row of the pixels whose alpha is above 10.
C19_Claim ==
    (Analyzed /\ Content # {}) =>
        /\ pix.bounds.minX = SetMin({xy[1] : xy \in Content})
        /\ pix.bounds.maxX = SetMax({xy[1] : xy \in Content})
        /\ pix.bounds.minY = SetMin({xy[2] : xy \in Content})
        /\ pix.bounds.maxY = SetMax({xy[2] : xy \in Content})

\* C20 as claimed: for a bitmap without a pixel of alpha above 10,
\* analyzeContentBounds returns the record minX = 0, minY = 0, maxX = width,
\* maxY = height, contentWidth = width, contentHeight = height, offsets 0
\* and ratios 1; and it returns that record for no other bitmap.
C20_Claim ==
    Analyzed =>
        (Content = {} <=>
            pix.bounds = [minX |-> 0, minY |-> 0,
                          maxX |-> pix.of.width, maxY |-> pix.of.height,
                          contentWidth |-> pix.of.width,
                          contentHeight |-> pix.of.height,
                          centerOffsetX |-> Ratio(0, 1),
                          centerOffsetY |-> Ratio(0, 1),
                          contentRatioX |-> Ratio(1, 1),
                          contentRatioY |-> Ratio(1, 1)])

----------------------------------------------------------------------------
\* Properties of the ContentBounds records

\* analyzeContentBounds or getContentBounds has returned pix.bounds for the
\* bitmap pix.of.
Returned == pix.op \in {"analyzeContentBounds", "getContentBounds"}

\* The canvas hands out the pixels of the bitmap that was analyzed.
Readable == pix.of.canvas \in {"exact", "premultiplied"}

\* b's bounds are inclusive pixel indices of a width * height bitmap and its
\* sizes are derived from them.
WellFormed(b, width, height) ==
    /\ 0 <= b.minX /\ b.minX <= b.maxX /\ b.maxX <= width - 1
    /\ 0 <= b.minY /\ b.minY <= b.maxY /\ b.maxY <= height - 1
    /\ b.contentWidth = b.maxX - b.minX + 1
    /\ b.contentHeight = b.maxY - b.minY + 1

RatioIs(q, n, d) == q.den # 0 /\ d # 0 /\ q.num * d = n * q.den

\* q < 0, q = 0
RatioNegative(q) == (q.num < 0 /\ q.den > 0) \/ (q.num > 0 /\ q.den < 0)

RatioZero(q) == q.num = 0 /\ q.den # 0

\* A 100 x 100 bitmap that is transparent but for an opaque 10 x 10 block in
\* its top left corner.
BlockImage ==
    Image(100, 100,
          [i \in 1..10000 |->
              IF (i - 1) % 100 <= 9 /\ (i - 1) \div 100 <= 9
              THEN Pixel(0, 0, 255, 255)
              ELSE Pixel(0, 0, 0, 0)],
          "exact")

BlockBounds == analyzeContentBounds(BlockImage)

RatioWithin(q, lo2, hi2) ==
    q.den > 0 /\ lo2 * q.den <= 2 * q.num /\ 2 * q.num <= hi2 * q.den

Abs(n) == IF n < 0 THEN 0 - n ELSE n

\* C23: for every bitmap of width >= 1 and height >= 1 the record returned
\* has centerOffsetX and centerOffsetY between -0.5 and 0.5
\* (|minX + maxX + 1 - width| <= width, the same for Y) and contentRatioX and
\* contentRatioY greater than 0 and at most 1.
C23_Range ==
    (Returned /\ pix.of.width >= 1 /\ pix.of.height >= 1) =>
        LET b == pix.bounds
        IN  /\ RatioWithin(b.centerOffsetX, -1, 1)
            /\ RatioWithin(b.centerOffsetY, -1, 1)
            /\ Abs(b.minX + b.maxX + 1 - pix.of.width) <= pix.of.width
            /\ Abs(b.minY + b.maxY + 1 - pix.of.height) <= pix.of.height
            /\ RatioWithin(b.contentRatioX, 0, 2) /\ b.contentRatioX.num > 0
            /\ RatioWithin(b.contentRatioY, 0, 2) /\ b.contentRatioY.num > 0

\* analyzeContentBounds has returned a record for a readable bitmap at least
\* three pixels wide whose content is in the last column alone.
C23_Witness ==
    /\ Analyzed
    /\ Readable
    /\ pix.of.width >= 3
    /\ Content # {}
    /\ pix.bounds.minX = pix.of.width - 1
    /\ pix.bounds.centerOffsetX.num > 0

\* C24: once getContentBounds(L, img1) has returned a record, that record
\* stays in the bounds cache through every step but clearImageCache (loads
\* and writes of raw and filtered bitmaps included), and every later
\* getContentBounds(L, img2), for any img2, returns it without scanning img2.
C24_Stale ==
    [][\A src \in BoundsLocators :
          MapHas(contentBoundsCache, src) =>
             \/ clearImageCache
             \/ /\ MapHas(contentBoundsCache', src)
                /\ contentBoundsCache'[src] = contentBoundsCache[src]
                /\ boundsOut'.src = src =>
                      /\ ~boundsOut'.scanned
                      /\ boundsOut'.rec = contentBoundsCache[src]]_vars

\* getContentBounds has returned, without scanning, a record that is not the
\* one of the bitmap it was given, while the bitmap cache holds an entry.
C24_Witness ==
    /\ boundsOut.src = PngA
    /\ ~boundsOut.scanned
    /\ boundsOut.rec # analyzeContentBounds(Bitmap(boundsOut.img))
    /\ boundsOut.rec = MapGet(contentBoundsCache, PngA)
    /\ imageCache # EmptyMap

\* C25 as claimed: when the pixels of the bitmap cannot be obtained (no
\* drawing context, or reading them throws), analyzeContentBounds and
\* getContentBounds return no record, what they do differs from the record
\* of a bitmap without content, and getContentBounds stores no record.
C25_Claim ==
    (Returned /\ ~Readable) =>
        /\ pix.bounds = NoBounds
        /\ pix.bounds # FallbackBounds(pix.of.width, pix.of.height)
        /\ contentBoundsCache = EmptyMap

----------------------------------------------------------------------------
\* Properties of the cache keys

\* C27 as claimed: the entry returned for the filtered variant of a locator
\* L, getCachedImage(L, true), is always a bitmap the chroma filter made from
\* L's bitmap, whatever locators have been loaded: a load of the raw locator
\* "a.png_filtered" never creates the entry returned as the filtered variant
\* of "a.png".
C27_Claim ==
    \A l \in SpriteLocators :
        isImageCached(l, TRUE) =>
            /\ getCachedImage(l, TRUE).filtered
            /\ getCachedImage(l, TRUE).url \in {l, getWebPPath(l)}

----------------------------------------------------------------------------
\* Properties of the generator hook

\* The stages of the pipeline, in order.
Stages == <<"get-aspect-ratio", "generate", "analyze", "preload">>

\* The await each stage is suspended at.
Awaits == <<"aspect", "generate", "analyze", "preload">>

\* The stages call c has started.
StagesOf(c, g) == [i \in 1..Len(g.calls[c].sent) |-> g.calls[c].sent[i].step]

\* The step starts a stage of call c.
Sends(c) == gen'.calls[c].sent # gen.calls[c].sent

\* C28: a generate call with a prompt that is not blank starts the stages
\* get-aspect-ratio, generate, analyze, preload in this order, each in the
\* step in which the one before has succeeded; the call sets step to
\* 'generating' and no later step of it changes step, result or error until
\* its last; step becomes 'complete' and result is set only in the step in
\* which a preload has succeeded; a stage that fails ends the call, which
\* starts no further stage, with step 'error' and an error message.
C28_Pipeline ==
    /\ [](\A c \in GenCallIds :
             LET call == gen.calls[c]
             IN  /\ StagesOf(c, gen) = SubSeq(Stages, 1, Len(call.sent))
                 /\ \A i \in 1..4 : call.pc = Awaits[i] => Len(call.sent) = i
                 /\ call.pc = "complete" => Len(call.sent) = 4
                 /\ call.pc = "idle" <=> call.sent = <<>>)
    /\ [][\A c \in GenCallIds :
             LET old == gen.calls[c]
                 new == gen'.calls[c]
             IN  /\ Sends(c) =>
                       /\ new.sent = Append(old.sent, Last(new.sent))
                       /\ new.pc = Awaits[Len(new.sent)]
                       /\ IF old.pc = "idle"
                          THEN /\ gen'.step = "generating"
                               /\ gen'.result = NoResult
                               /\ gen'.error = NoError
                               /\ trim(new.prompt) # <<>>
                          ELSE /\ old.pc = Awaits[Len(old.sent)]
                               /\ gen'.step = gen.step
                               /\ gen'.result = gen.result
                               /\ gen'.error = gen.error
                 /\ old.pc \in {"failed", "complete"} => new = old
                 /\ (new.pc = "failed" /\ old.pc # "failed") =>
                       /\ old.pc \in {"aspect", "generate", "analyze",
                                      "preload"}
                       /\ new.sent = old.sent
                       /\ gen'.step = "error"
                       /\ gen'.error # NoError
                 /\ (new.pc = "complete" /\ old.pc # "complete") =>
                       /\ old.pc = "preload"
                       /\ gen'.step = "complete"
                       /\ gen'.result = [imageUrl |-> old.imageUrl,
                                         prompt |-> trim(old.prompt),
                                         attributes |-> old.attributes]]_vars
    /\ [][(gen'.step = "complete" /\ gen.step # "complete")
          \/ (gen'.result # NoResult /\ gen'.result # gen.result) =>
             \E c \in GenCallIds :
                /\ gen.calls[c].pc = "preload"
                /\ gen'.calls[c].pc = "complete"]_vars

\* A call has gone through the four stages and its result is shown.
C28_Witness ==
    \E c \in GenCallIds :
        /\ gen.calls[c].pc = "complete"
        /\ StagesOf(c, gen) = Stages
        /\ gen.step = "complete"
        /\ gen.result.imageUrl = gen.calls[c].imageUrl
        /\ gen.result.prompt = <<"hut">>
        /\ gen.calls[c].sent[2].aspectRatio = "4:5"

\* C29 as claimed: in every reachable state of the hook, result is non-null
\* only when step = 'complete', error is non-null only when step = 'error',
\* step = 'complete' implies a result and step = 'error' implies an error.
C29_Claim ==
    /\ gen.result # NoResult => gen.step = "complete"
    /\ gen.error # NoError => gen.step = "error"
    /\ gen.step = "complete" => gen.result # NoResult
    /\ gen.step = "error" => gen.error # NoError

\* C30 as claimed: after reset() the hook stays in step = 'idle' with
\* result = null and error = null until generate is called again, whatever
\* the generations started before the reset do.
C30_Claim ==
    [][(gen.step = "idle"
        /\ ~(\E c \in GenCallIds, prompt \in Prompts : CallGenerate(c, prompt)))
       => /\ gen'.step = "idle"
          /\ gen'.result = NoResult
          /\ gen'.error = NoError]_vars

----------------------------------------------------------------------------
\* Properties of the custom-buildings provider

\* The valid buildings of a localStorage item.
ValidIn(item) ==
    LET loaded == loadCustomBuildings(item)
    IN  {loaded[i] : i \in 1..Len(loaded)}

\* C31 as claimed: the step that mounts the provider reads the stored list
\* before it writes, every list it writes is the loaded list, never an empty
\* list in place of stored buildings, and the stored item holds afterwards
\* every valid building it held before.
C31_Claim ==
    [][(~provider.mounted /\ provider'.mounted) =>
          /\ provider'.read
          /\ \A i \in 1..Len(provider'.wrote) :
                provider'.wrote[i] = loadCustomBuildings(provider.item)
          /\ ValidIn(provider.item) \subseteq ValidIn(provider'.item)]_vars

\* The ids of the list are pairwise distinct.
DistinctIds(list) ==
    \A i, j \in 1..Len(list) : list[i].id = list[j].id => i = j

\* C32: addCustomBuilding replaces the building of the same id at its
\* position, the length staying, and appends otherwise, all other buildings
\* staying as they are; removeCustomBuilding(id) leaves no building with that
\* id and the others as they are; both keep pairwise distinct ids distinct.
C32_Upsert ==
    [][LET prev == provider.customBuildings
           new  == provider'.customBuildings
       IN  /\ \A b \in CustomBuildings :
                 addCustomBuilding(b) =>
                    /\ IF b.id \in IdsOf(prev)
                       THEN /\ Len(new) = Len(prev)
                            /\ \E i \in 1..Len(prev) :
                                  /\ prev[i].id = b.id
                                  /\ new[i] = b
                                  /\ \A j \in 1..Len(prev) :
                                        j # i => new[j] = prev[j]
                       ELSE new = Append(prev, b)
                    /\ DistinctIds(prev) => DistinctIds(new)
           /\ \A id \in BuildingIds :
                 removeCustomBuilding(id) =>
                    /\ id \notin IdsOf(new)
                    /\ IdsOf(new) = IdsOf(prev) \ {id}
                    /\ \A i \in 1..Len(new) :
                          \E j \in i..Len(prev) : new[i] = prev[j]
                    /\ Len(new) =
                          Cardinality({j \in 1..Len(prev) : prev[j].id # id})
                    /\ DistinctIds(prev) => DistinctIds(new)]_vars

\* addCustomBuilding has replaced the first of two buildings.
C32_Witness ==
    /\ provider.customBuildings =
          <<Entry("b1", "n2", 2, TRUE), Entry("b2", "n1", 2, TRUE)>>
    /\ provider.op = "addCustomBuilding"
    /\ provider.arg = "b1"

\* C33: with selectCustomBuilding called with null or the id of a building
\* of the list, selectedCustomBuildingId is always null or the id of a
\* building of the list; removeCustomBuilding of the selected building
\* clears the selection and of another building leaves it as it is.
C33_Selection ==
    /\ [](provider.selected = "null"
          \/ provider.selected \in IdsOf(provider.customBuildings))
    /\ [][\A id \in BuildingIds :
             removeCustomBuilding(id) =>
                provider'.selected =
                   IF provider.selected = id THEN "null"
                   ELSE provider.selected]_vars

\* The selected building has been removed while another one stays in the
\* list: nothing is selected.
C33_Witness ==
    /\ provider.op = "removeCustomBuilding"
    /\ provider.arg = "b1"
    /\ provider.selected = "null"
    /\ IdsOf(provider.customBuildings) = {"b2"}
    /\ ValidIn(provider.item) # {}


----------------------------------------------------------------------------
\* Properties of the panel

\* C34: closing the dialog while the step is 'generating' leaves step,
\* result, error, prompt and edited name as they are; closing in any other
\* step puts the generator back to 'idle' with no result and no error and
\* clears prompt and edited name; opening resets nothing; and in every case
\* the open-change is forwarded to the parent exactly once.
C34_OpenChange ==
    [][\A newOpen \in BOOLEAN :
          handleOpenChange(newOpen) =>
              /\ panel'.forwarded = <<newOpen>>
              /\ (newOpen \/ gen.step = "generating") =>
                    /\ gen'.step = gen.step
                    /\ gen'.result = gen.result
                    /\ gen'.error = gen.error
                    /\ panel'.prompt = panel.prompt
                    /\ panel'.editedName = panel.editedName
              /\ (~newOpen /\ gen.step # "generating") =>
                    /\ gen'.step = "idle"
                    /\ gen'.result = NoResult
                    /\ gen'.error = NoError
                    /\ panel'.prompt = <<>>
                    /\ panel'.editedName = ""]_vars

\* The dialog was closed during a generation, with the prompt still there.
C34_Witness ==
    /\ panel.forwarded = <<FALSE>>
    /\ gen.step = "generating"
    /\ panel.prompt # <<>>


----------------------------------------------------------------------------
\* Properties of the analyze step

\* The number h / 2 is an integer of lo..hi.
WholeIn(h, lo, hi) == h % 2 = 0 /\ h \div 2 >= lo /\ h \div 2 <= hi

\* The number h / 2 is an integer that is at least lo.
WholeFrom(h, lo) == h % 2 = 0 /\ h \div 2 >= lo

\* C35: for every numeric input the returned size is
\* clamp(round(size), 1, 4), pollution clamp(round(pollution), -25, 55),
\* landValue clamp(round(landValue), -20, 80), maxPop max(0, round(maxPop)),
\* maxJobs max(0, round(maxJobs)) and suggestedCost
\* max(100, round(suggestedCost)); every returned value lies in its range and
\* an integer input inside its range is returned unchanged.
C35_Claim ==
    attrs.op = "analyze" =>
        LET in == attrs.input
            out == attrs.output
        IN  /\ out.size = clamp(round(in.size), 1, 4)
            /\ out.pollution = clamp(round(in.pollution), -25, 55)
            /\ out.landValue = clamp(round(in.landValue), -20, 80)
            /\ out.maxPop = max(0, round(in.maxPop))
            /\ out.maxJobs = max(0, round(in.maxJobs))
            /\ out.suggestedCost = max(100, round(in.suggestedCost))
            /\ out.size \in 1..4 /\ out.pollution \in -25..55
            /\ out.landValue \in -20..80
            /\ out.maxPop >= 0 /\ out.maxJobs >= 0
            /\ out.suggestedCost >= 100
            /\ WholeIn(in.size, 1, 4) => out.size = in.size \div 2
            /\ WholeIn(in.pollution, -25, 55) =>
                  out.pollution = in.pollution \div 2
            /\ WholeIn(in.landValue, -20, 80) =>
                  out.landValue = in.landValue \div 2
            /\ WholeFrom(in.maxPop, 0) => out.maxPop = in.maxPop \div 2
            /\ WholeFrom(in.maxJobs, 0) => out.maxJobs = in.maxJobs \div 2
            /\ WholeFrom(in.suggestedCost, 100) =>
                  out.suggestedCost = in.suggestedCost \div 2
====
